---- MODULE Spec2Model ----
(***************************************************************************)
(* Model of the device communication and scan-acquisition core of          *)
(* dltscontrol (src/dltscontrol/dlts.py): the DltsConnection protocol      *)
(* layer over a byte transport, and the Scan state machine.                *)
(***************************************************************************)
EXTENDS Integers, Sequences, FiniteSets, TLC

(***************************************************************************)
(* Bounds of the model.                                                    *)
(***************************************************************************)
\* bytes the device may have pending on the transport
MaxRx == 6
\* commands kept in the log of what was written to the transport
MaxTx == 2
\* acquire() calls a thread may have made without a matching release()
MaxHolds == 2
\* the largest size of the scan history a facade is constructed with
MaxHistory == 2
\* the largest bound of a scan area
MaxCoord == 3
\* the largest step size of a scan area
MaxStep == 2
\* the largest number of rows and of columns of a scan image
MaxImageSide == 3
\* the largest value handed to a set command
MaxValue == 65540
\* the largest number of bytes a stream read by readUntil delivers
MaxStream == 3
\* the largest size cap handed to readUntil
MaxCap == 2

(***************************************************************************)
(* DltsConstants                                                           *)
(***************************************************************************)
DLTS_COMMAND_HEADER_LENGTH == 3
DLTS_RESPONSE_HEADER_LENGTH == 3

\* bytes are integers 0..255; text is the sequence of its ASCII codes
DLTS_RESPONSE_ACKNOWLEDGE == <<97, 99, 107>>
DLTS_RESPONSE_ERROR == <<101, 114, 114>>
DLTS_RESPONSE_DATA == <<100, 97, 116>>

\* a Python value that is a str or a bytes object: readUntil() tells them apart
Str(s) == [type |-> "str", val |-> s]
Bytes(s) == [type |-> "bytes", val |-> s]

\* DLTS_LINE_TERMINATOR = "\r\n" is a str
DLTS_LINE_TERMINATOR == Str(<<13, 10>>)

\* str.encode("ascii")
Encode(s) == Bytes(s.val)

\* the value None (never a byte string: bytes are 0..255)
None == <<-1>>
\* readUntil(size = None)
NoSize == -1

(***************************************************************************)
(* Sequence helpers                                                        *)
(***************************************************************************)
Min(a, b) == IF a <= b THEN a ELSE b

Take(s, n) == SubSeq(s, 1, Min(n, Len(s)))

Drop(s, n) == SubSeq(s, Min(n, Len(s)) + 1, Len(s))

EndsWith(s, t) == Len(s) >= Len(t) /\ SubSeq(s, Len(s) - Len(t) + 1, Len(s)) = t

\* int.from_bytes(b, "big")
RECURSIVE FromBytesBig(_)
FromBytesBig(b) ==
    IF Len(b) = 0 THEN 0
    ELSE 256 * FromBytesBig(SubSeq(b, 1, Len(b) - 1)) + b[Len(b)]

\* bytes.decode("ascii") succeeds only on 7-bit bytes
IsAscii(b) == \A i \in 1..Len(b) : b[i] < 128

\* a local assignment "x = e" followed by F(x): e is computed once
Let(e, F(_)) == CHOOSE y \in {F(x) : x \in {e}} : TRUE

(***************************************************************************)
(* Threads and the reentrant lock _comLock                                 *)
(***************************************************************************)
Callers == {"t1", "t2"}
NoThread == "none"

\* threading.RLock.acquire(False): succeeds for a free lock and for its owner
RLockCanAcquire(owner, t) == owner = NoThread \/ owner = t

\* _acquireForTemporaryUsage fails unless the RLock can be taken
AcquireConflict_Never(owner, t) == FALSE

AcquireConflict(owner, t) == ~RLockCanAcquire(owner, t)

\* _acquireForTemporaryUsage by the thread that already owns the lock
AcquireForTemporaryUsage(c) == c + 1

ReleaseFromTemporaryUsage_Leak(c) == c

\* _releaseFromTemporaryUsage: one level of the RLock
ReleaseFromTemporaryUsage(c) == c - 1

(***************************************************************************)
(* Transport (ByteStreamBasedDltsConnection over a stream with timeout):   *)
(* a read delivers the pending bytes, fewer than asked when the device is  *)
(* silent until the timeout.                                               *)
(***************************************************************************)
ReadUnlocked(buf, size) == [data |-> Take(buf, size), rest |-> Drop(buf, size)]

ReadAllUnlocked(buf) == [data |-> buf, rest |-> <<>>]

(***************************************************************************)
(* Protocol calls as the code computes them.  Each operator is the body of *)
(* the method's try block, run by a thread that owns the lock at level c;  *)
(* the result carries the exception kind ("ok" when it returns), the       *)
(* returned data, the bytes left on the transport, the commands written    *)
(* and the lock level after the method's finally block.                    *)
(***************************************************************************)
Outcome(kind, data, rest, sent, cnt) ==
    [kind |-> kind, data |-> data, rest |-> rest, sent |-> sent, cnt |-> cnt,
     hdr |-> None, raised |-> "none"]

\* what the caller sees of an outcome
Returned(o) == [kind |-> o.kind, data |-> o.data, hdr |-> o.hdr, raised |-> o.raised]

NoReturn == [kind |-> "none", data |-> None, hdr |-> None, raised |-> "none"]

\* the forced read raises on a shortfall
ReadShortfall_Ignored(force, got, size) == FALSE

ReadShortfall(force, got, size) == force /\ got < size

readBody(buf, c, size, force) ==
    Let(ReadUnlocked(buf, size), LAMBDA r :
        IF ReadShortfall(force, Len(r.data), size)
        THEN Outcome("DltsTimeoutError", None, r.rest, <<>>, c)
        ELSE Outcome("ok", r.data, r.rest, <<>>, c))

read(buf, c, size, force) ==
    Let(readBody(buf, AcquireForTemporaryUsage(c), size, force), LAMBDA o :
        [o EXCEPT !.cnt = ReleaseFromTemporaryUsage(o.cnt)])

writeBody(buf, c, data) == Outcome("ok", None, buf, <<data>>, c)

write(buf, c, data) ==
    Let(writeBody(buf, AcquireForTemporaryUsage(c), data), LAMBDA o :
        [o EXCEPT !.cnt = ReleaseFromTemporaryUsage(o.cnt)])

\* a loop that never looks for the terminator
ReadUntilContinue_NoTerminator(received, term, size) ==
    size = NoSize \/ size < Len(received)

\* a loop that reads while the size cap has not been reached
ReadUntilContinue_CapNotReached(received, term, size) ==
    ~EndsWith(received, term) /\ (size = NoSize \/ Len(received) < size)

\* while not received.endswith(terminator) and (size is None or size < len(received))
ReadUntilContinue(received, term, size) ==
    ~EndsWith(received, term) /\ (size = NoSize \/ size < Len(received))

RECURSIVE ReadUntilLoop(_, _, _, _, _)
ReadUntilLoop(received, buf, c, term, size) ==
    IF ReadUntilContinue(received, term, size)
    THEN Let(ReadUnlocked(buf, 1), LAMBDA r :
             IF Len(r.data) = 0
             THEN Outcome("DltsTimeoutError", None, r.rest, <<>>, c)
             ELSE Let(received \o r.data, LAMBDA extended :
                      ReadUntilLoop(extended, r.rest, c, term, size)))
    ELSE Outcome("ok", received, buf, <<>>, c)

\* force = True, as every caller leaves it; bytearray.endswith(str) is a TypeError
readUntilBody(buf, c, terminator, size) ==
    IF terminator.type # "bytes"
    THEN Outcome("TypeError", None, buf, <<>>, c)
    ELSE ReadUntilLoop(<<>>, buf, c, terminator.val, size)

readUntil(buf, c, terminator, size) ==
    Let(readUntilBody(buf, AcquireForTemporaryUsage(c), terminator, size), LAMBDA o :
        [o EXCEPT !.cnt = ReleaseFromTemporaryUsage(o.cnt)])

readAllBody(buf, c) ==
    Let(ReadAllUnlocked(buf), LAMBDA r : Outcome("ok", r.data, r.rest, <<>>, c))

readAll(buf, c) ==
    Let(readAllBody(buf, AcquireForTemporaryUsage(c)), LAMBDA o :
        [o EXCEPT !.cnt = ReleaseFromTemporaryUsage(o.cnt)])

\* the inner try block of command() on a header mismatch: what it raises
CommandMismatch(rest, c, header) ==
    IF header = DLTS_RESPONSE_ERROR
    THEN Let(readUntil(rest, c, DLTS_LINE_TERMINATOR, NoSize), LAMBDA e :
             [e EXCEPT !.raised = IF e.kind = "ok" THEN "DltsFirmwareError" ELSE e.kind])
    ELSE Let(readAll(rest, c), LAMBDA a :
             [a EXCEPT !.raised = "DltsProtocolError"])

\* "except Exception as e: cprint(...)": the handler prints and falls through
CommandExcept(raised) == "ok"

commandBody(buf, c, command, expectedResponseHeader, responseDataSize) ==
    Let(write(buf, c, command), LAMBDA w :
    Let(read(w.rest, w.cnt, DLTS_RESPONSE_HEADER_LENGTH, TRUE), LAMBDA h :
        IF h.kind # "ok"
        THEN [h EXCEPT !.sent = w.sent]
        ELSE IF ~IsAscii(h.data)
        THEN [Outcome("UnicodeDecodeError", None, h.rest, w.sent, h.cnt) EXCEPT !.hdr = h.data]
        ELSE IF h.data # expectedResponseHeader
        THEN Let(CommandMismatch(h.rest, h.cnt, h.data), LAMBDA m :
                 [kind |-> CommandExcept(m.raised), data |-> None, rest |-> m.rest,
                  sent |-> w.sent, cnt |-> m.cnt, hdr |-> h.data, raised |-> m.raised])
        ELSE IF responseDataSize # 0
        THEN Let(read(h.rest, h.cnt, responseDataSize, TRUE), LAMBDA d :
                 [d EXCEPT !.sent = w.sent, !.hdr = h.data])
        ELSE [Outcome("ok", None, h.rest, w.sent, h.cnt) EXCEPT !.hdr = h.data]))

command(buf, c, cmd, expectedResponseHeader, responseDataSize) ==
    Let(commandBody(buf, AcquireForTemporaryUsage(c), cmd, expectedResponseHeader,
                    responseDataSize), LAMBDA o :
        [o EXCEPT !.cnt = ReleaseFromTemporaryUsage(o.cnt)])

commandSkipUntilResponseBody(buf, c, cmd, expectedResponseHeader) ==
    Let(write(buf, c, cmd), LAMBDA w :
    Let(readUntil(w.rest, w.cnt, Encode(expectedResponseHeader), NoSize), LAMBDA u :
        [u EXCEPT !.sent = w.sent, !.data = None]))

commandSkipUntilResponse(buf, c, cmd, expectedResponseHeader) ==
    Let(commandSkipUntilResponseBody(buf, AcquireForTemporaryUsage(c), cmd,
                                     expectedResponseHeader), LAMBDA o :
        [o EXCEPT !.cnt = ReleaseFromTemporaryUsage(o.cnt)])

\* the wrappers built on command()
commandWithAcknowledgeBody(buf, c, cmd) ==
    commandBody(buf, c, cmd, DLTS_RESPONSE_ACKNOWLEDGE, 0)

commandSetBody(buf, c, cmd) == commandWithAcknowledgeBody(buf, c, cmd)

commandScanStartBody(buf, c, cmd) == commandBody(buf, c, cmd, DLTS_RESPONSE_DATA, 0)

commandDataRetrievalBody(buf, c, cmd, dataSize) ==
    commandBody(buf, c, cmd, DLTS_RESPONSE_DATA, dataSize)

\* int.from_bytes(self.commandGet(command, bytesCount), "big"); from_bytes(None) is a TypeError
commandGetUIntBody(buf, c, cmd, bytesCount) ==
    Let(commandDataRetrievalBody(buf, c, cmd, bytesCount), LAMBDA o :
        IF o.kind # "ok" THEN o
        ELSE IF o.data = None THEN [o EXCEPT !.kind = "TypeError"]
        ELSE [o EXCEPT !.data = <<FromBytesBig(o.data)>>])

(***************************************************************************)
(* DltsCommand: the commands a scan sends                                  *)
(***************************************************************************)
UInt16Overflow_Never(value) == FALSE

\* value.to_bytes(2, "big") raises OverflowError outside 0..65535
UInt16Overflow(value) == value < 0 \/ value > 65535

EncodeToUInt16(value) == <<value \div 256, value % 256>>

\* "s" + subject + the value as UInt16
SetUInt16(setSubject, value) == <<115>> \o setSubject \o EncodeToUInt16(value)

SetXPosition(position) == SetUInt16(<<112, 120>>, position)
SetYPosition(position) == SetUInt16(<<112, 121>>, position)
SetZPosition(position) == SetUInt16(<<112, 122>>, position)
SetXTilt(position) == SetUInt16(<<112, 116>>, position)
SetScanXAxisLowBoundary(boundary) == SetUInt16(<<120, 108>>, boundary)
SetScanXAxisHighBoundary(boundary) == SetUInt16(<<120, 104>>, boundary)
SetScanYAxisLowBoundary(boundary) == SetUInt16(<<121, 108>>, boundary)
SetScanYAxisHighBoundary(boundary) == SetUInt16(<<121, 104>>, boundary)
SetScanXStepSize(stepsize) == SetUInt16(<<115, 120>>, stepsize)
SetScanYStepSize(stepsize) == SetUInt16(<<115, 121>>, stepsize)
SetScanXDelay(delay) == SetUInt16(<<100, 112>>, delay)
SetScanYDelay(delay) == SetUInt16(<<100, 108>>, delay)
SetLaserIntensity(intensity) == SetUInt16(<<108, 105>>, intensity)

GetXTilt == <<103, 112, 116>>
GetZPosition == <<103, 112, 122>>
GetLaserIntensity == <<103, 108, 105>>

ActionScanArea == <<97, 115, 97>>
ActionScanStop == <<97, 115, 115>>

(***************************************************************************)
(* ScanAreaConfig                                                          *)
(***************************************************************************)
ScanAreaConfig(xLow, xHigh, yLow, yHigh, xStep, yStep) ==
    [XBoundsLow |-> xLow, XBoundsHigh |-> xHigh, YBoundsLow |-> yLow, YBoundsHigh |-> yHigh,
     XStepSize |-> xStep, YStepSize |-> yStep, XStepDelay_ms |-> 0, YStepDelay_ms |-> 0]

ScanPositionsCountInX_Ceiling(cfg) ==
    ((cfg.XBoundsHigh - cfg.XBoundsLow + cfg.XStepSize - 1) \div cfg.XStepSize) + 1

\* math.floor((high - low) / step) + 1
ScanPositionsCountInX(cfg) == ((cfg.XBoundsHigh - cfg.XBoundsLow) \div cfg.XStepSize) + 1

ScanPositionsCountInY(cfg) == ((cfg.YBoundsHigh - cfg.YBoundsLow) \div cfg.YStepSize) + 1

ScanPositionsCount(cfg) == ScanPositionsCountInX(cfg) * ScanPositionsCountInY(cfg)

\* (ScanPositionsCountInX, ScanPositionsCountInY)
ScanResolution(cfg) == <<ScanPositionsCountInX(cfg), ScanPositionsCountInY(cfg)>>

\* the scans: over a single point, over a line of two points, and with bounds
\* given the wrong way round; the x tilt is asked for, the z position and the
\* laser intensity are left to the device's values
PointConfig == ScanAreaConfig(0, 0, 0, 0, 1, 1)
LineConfig == ScanAreaConfig(0, 1, 0, 0, 1, 1)
EmptyConfig == ScanAreaConfig(1, 0, 0, 0, 1, 1)

Configs == {PointConfig, LineConfig, EmptyConfig}

(***************************************************************************)
(* State                                                                   *)
(***************************************************************************)
VARIABLES
    comLockOwner,   \* _comLock: the thread that owns the RLock, or NoThread
    comLockCount,   \* _comLock: its recursion level
    acquired,       \* _acquired
    rx,             \* bytes the transport will deliver before it goes silent
    tx,             \* the commands written to the transport
    pc,             \* position of each caller thread
    call,           \* the call a caller thread is in
    out,            \* what that call returns or raises, once its try block has run
    byMe,           \* release(): what IsAcquiredByMe returned
    holds,          \* successful acquire() calls not yet matched by a release()
    configuration,  \* Scan._configuration
    xTilt,          \* Scan._xTilt (None or <<value>>)
    zPosition,      \* Scan._zPosition
    laserIntensity, \* Scan._laserIntensity
    scanImages,     \* Scan._scanImages: the points the published images were built from
    dataPoints,     \* Scan._dataPoints
    startTime,      \* Scan._startTime has been set
    finishTime,     \* Scan._finishTime has been set
    scanFinished,   \* Scan._scanFinished
    abortRequested, \* Scan._abortRequested
    scanningForDataPoints, \* Scan._scanningForDataPoints
    dataPointsLock, \* Scan._dataPointsLock: its holder, or NoThread
    scanImagesLock, \* Scan._scanImagesLock: its holder, or NoThread
    scanThread,     \* Scan._scanThread: "initial", "alive" or "stopped"
    scanImagesCreationThread, \* Scan._scanImagesCreationThread, likewise
    spc,            \* position of the scan thread in _scanThreadTarget
    si,             \* its index into the setup or the restore commands
    cached,         \* cachedXTilt, cachedZPosition, cachedLaserIntensity
    dataPoint,      \* the data point it has just received
    length,         \* the point count it has just read
    ipc,            \* position of the images thread
    scanImagesDirty,\* its local flag
    snapshot,       \* the points it took from getDataPoints()
    runs,           \* how often _scanThreadTarget has been entered
    dltsConnectionIsOpen, \* Dlts._dltsConnection.IsOpen
    dltsScan,       \* Dlts._scan: a scan, or NoScan
    scanHistory,    \* Dlts._scanHistory, newest first
    scanHistorySize,\* its maxlen
    threadOf,       \* the scans a caller can hand to the facade: _scanThread of each
    finishedOf,     \* and _scanFinished of each
    dltsOut,        \* what the facade call that has just run returned or raised
    arg,            \* the argument of a call of a function without side effects
    ret,            \* what that call returned or raised
    comboScan,      \* a ComboScan: its fields and the position of its thread
    subScans        \* the scans it combines: the fields of each

connVars == <<comLockOwner, comLockCount, acquired, rx, tx, pc, call, out, byMe, holds>>

scanState == <<configuration, xTilt, zPosition, laserIntensity, scanImages, dataPoints,
               startTime, finishTime, scanFinished, abortRequested, scanningForDataPoints,
               dataPointsLock, scanImagesLock, scanThread, scanImagesCreationThread>>

scanLocals == <<spc, si, cached, dataPoint, length, ipc, scanImagesDirty, snapshot, runs>>

scanVars == <<scanState, scanLocals>>

dltsVars == <<dltsConnectionIsOpen, dltsScan, scanHistory, scanHistorySize, threadOf,
              finishedOf, dltsOut>>

callVars == <<arg, ret>>

comboVars == <<comboScan, subScans>>

\* what the connection and a scan leave alone
otherVars == <<dltsVars, callVars, comboVars>>

vars == <<connVars, scanVars, dltsVars, callVars, comboVars>>

\* no call has been made
NoArg == <<>>
NoRet == [raised |-> "no call"]

InitCall ==
    /\ arg = NoArg
    /\ ret = NoRet

(***************************************************************************)
(* Dlts: the facade after construction                                     *)
(***************************************************************************)
\* the scan objects a caller can hand to startScan
Scans == {"s1", "s2", "s3"}

\* "self._scan = None"
NoScan == "None"

NoResult == [op |-> "none", args |-> <<>>, raised |-> "none", sent |-> <<>>]

\* Dlts.__init__(dltsConnection, scanHistorySize) on an open connection
InitDlts(size) ==
    /\ dltsConnectionIsOpen = TRUE
    /\ dltsScan = NoScan
    /\ scanHistory = <<>>
    /\ scanHistorySize = size
    /\ threadOf = [s \in Scans |-> "initial"]
    /\ finishedOf = [s \in Scans |-> FALSE]
    /\ dltsOut = NoResult

(***************************************************************************)
(* ComboScan: the scan after construction, with the scans it combines      *)
(***************************************************************************)
\* ComboScan(*scans): self._scans
ComboScans == <<"s1", "s2", "s3">>

\* a scan that has not been started
NewSubScan ==
    [thread |-> "initial", scanFinished |-> FALSE, abortRequested |-> FALSE,
     scanningForDataPoints |-> FALSE, pc |-> "setup"]

\* ComboScan.__init__; isAlive tells whether threading.Thread has the method
\* isAlive(), which Python 3.9 removed
InitCombo(isAlive) ==
    /\ comboScan = [abortRequested |-> FALSE, thread |-> "initial", i |-> 1, pc |-> "for",
                    isAlive |-> isAlive, raised |-> "none"]
    /\ subScans = [n \in 1 .. Len(ComboScans) |-> NewSubScan]

(***************************************************************************)
(* Scan                                                                    *)
(***************************************************************************)
ScanThread == "scan"
ImagesThread == "images"
\* the thread that calls start() and abort()
Gui == "t1"

\* the images published before any were created: tuple()
NoImages == [built |-> FALSE, points |-> <<>>]

InitScan(cfg, tilt) ==
    /\ configuration = cfg
    /\ xTilt = tilt
    /\ zPosition = None
    /\ laserIntensity = None
    /\ scanImages = NoImages
    /\ dataPoints = <<>>
    /\ startTime = FALSE
    /\ finishTime = FALSE
    /\ scanFinished = FALSE
    /\ abortRequested = FALSE
    /\ scanningForDataPoints = FALSE
    /\ dataPointsLock = NoThread
    /\ scanImagesLock = NoThread
    /\ scanThread = "initial"
    /\ scanImagesCreationThread = "initial"
    /\ spc = "enter"
    /\ si = 1
    /\ cached = <<None, None, None>>
    /\ dataPoint = None
    /\ length = 0
    /\ ipc = "loop"
    /\ scanImagesDirty = TRUE
    /\ snapshot = <<>>
    /\ runs = 0

isRunning == scanThread = "alive"

isFinished == scanFinished /\ scanThread # "alive"

isAborted == isFinished /\ abortRequested

getScanPointsCount == ScanPositionsCount(configuration)

getScannedPointsCount == Len(dataPoints)

isCompleted == isFinished /\ getScannedPointsCount >= getScanPointsCount

\* a / b of two ints: the quotient as a fraction, or ZeroDivisionError
TrueDivide(a, b) ==
    IF b = 0 THEN [raised |-> "ZeroDivisionError", num |-> 0, den |-> 1]
    ELSE [raised |-> "none", num |-> a, den |-> b]

\* "count / capacity if self.getScanPointsCount() is not None else 0.0":
\* the capacity is an int, never None
getProgressPercentage == TrueDivide(getScannedPointsCount, getScanPointsCount)

\* p <= q for two quotients with positive denominators
QuotientLeq(p, q) == p.num * q.den <= q.num * p.den

(***************************************************************************)
(* What the device may put on the transport                                *)
(***************************************************************************)
Chunks ==
    { DLTS_RESPONSE_ACKNOWLEDGE,
      DLTS_RESPONSE_DATA \o <<7>>,
      DLTS_RESPONSE_DATA \o <<4, 210>>,
      DLTS_RESPONSE_ERROR \o <<66, 13, 10>>,
      <<120, 97, 99>> }

GetXPosition == <<103, 112, 120>>

NoCall ==
    [op |-> "none", cmd |-> <<>>, expected |-> <<>>, n |-> 0, term |-> Bytes(<<>>),
     size |-> NoSize, force |-> TRUE, cnt0 |-> 0, own0 |-> FALSE]

ProtocolOps == {"read", "write", "readUntil", "readAll", "command", "commandGetUInt",
                "commandSkipUntilResponse"}

CallSet ==
    { [NoCall EXCEPT !.op = "read", !.n = 1], [NoCall EXCEPT !.op = "read", !.n = 2],
      [NoCall EXCEPT !.op = "read", !.n = 2, !.force = FALSE] }
    \cup { [NoCall EXCEPT !.op = "write", !.cmd = GetXPosition] }
    \cup { [NoCall EXCEPT !.op = "readUntil", !.term = Bytes(<<13, 10>>), !.size = z] : z \in {NoSize, 0} }
    \cup { [NoCall EXCEPT !.op = "readAll"] }
    \cup { [NoCall EXCEPT !.op = "command", !.cmd = GetXPosition, !.expected = DLTS_RESPONSE_ACKNOWLEDGE] }
    \cup { [NoCall EXCEPT !.op = "command", !.cmd = GetXPosition, !.expected = DLTS_RESPONSE_DATA, !.n = n] : n \in 0..2 }
    \cup { [NoCall EXCEPT !.op = "commandGetUInt", !.cmd = GetXPosition, !.expected = DLTS_RESPONSE_DATA, !.n = n] : n \in {1, 2} }
    \cup { [NoCall EXCEPT !.op = "commandSkipUntilResponse", !.cmd = GetXPosition, !.expected = DLTS_RESPONSE_ACKNOWLEDGE] }

Writes(cl) == cl.op \in {"write", "command", "commandGetUInt", "commandSkipUntilResponse"}

\* the try block of the method a caller thread is in
BodyOutcome(cl, buf, c) ==
    CASE cl.op = "read" -> readBody(buf, c, cl.n, cl.force)
      [] cl.op = "write" -> writeBody(buf, c, cl.cmd)
      [] cl.op = "readUntil" -> readUntilBody(buf, c, cl.term, cl.size)
      [] cl.op = "readAll" -> readAllBody(buf, c)
      [] cl.op = "command" -> commandBody(buf, c, cl.cmd, cl.expected, cl.n)
      [] cl.op = "commandGetUInt" -> commandGetUIntBody(buf, c, cl.cmd, cl.n)
      [] cl.op = "commandSkipUntilResponse" ->
            commandSkipUntilResponseBody(buf, c, cl.cmd, Str(cl.expected))

\* level at which thread t owns the RLock
LevelOf(t) == IF comLockOwner = t THEN comLockCount ELSE 0

\* t has acquired the connection
OwnedBy(t) == comLockOwner = t /\ acquired

InitConn ==
    /\ comLockOwner = NoThread
    /\ comLockCount = 0
    /\ acquired = FALSE
    /\ rx = <<>>
    /\ tx = <<>>
    /\ pc = [t \in Callers |-> "idle"]
    /\ call = [t \in Callers |-> NoCall]
    /\ out = [t \in Callers |-> NoReturn]
    /\ byMe = [t \in Callers |-> FALSE]
    /\ holds = [t \in Callers |-> 0]
    /\ InitScan(PointConfig, None)
    /\ InitDlts(1)
    /\ InitCombo(TRUE)
    /\ InitCall

(***************************************************************************)
(* The device                                                              *)
(***************************************************************************)
DeviceSend ==
    \E ch \in Chunks :
        /\ Len(rx) + Len(ch) <= MaxRx
        /\ rx' = rx \o ch
        /\ UNCHANGED <<comLockOwner, comLockCount, acquired, tx, pc, call, out, byMe, holds>>

(***************************************************************************)
(* A protocol call of a caller thread: _acquireForTemporaryUsage, the try  *)
(* block, the finally block and the return to the caller.                  *)
(***************************************************************************)
CallBegin(t) ==
    \E cl \in CallSet :
        /\ pc[t] = "idle"
        /\ (Writes(cl) /\ ~AcquireConflict(comLockOwner, t)) => Len(tx) < MaxTx
        /\ IF AcquireConflict(comLockOwner, t)
           THEN /\ out' = [out EXCEPT ![t] =
                        [NoReturn EXCEPT !.kind = "DltsConnectionAcquisitionError"]]
                /\ pc' = [pc EXCEPT ![t] = "raised"]
                /\ UNCHANGED <<comLockOwner, comLockCount, call>>
           ELSE /\ call' = [call EXCEPT ![t] =
                        [cl EXCEPT !.cnt0 = LevelOf(t), !.own0 = OwnedBy(t)]]
                /\ comLockOwner' = t
                /\ comLockCount' = AcquireForTemporaryUsage(comLockCount)
                /\ pc' = [pc EXCEPT ![t] = "body"]
                /\ UNCHANGED out
        /\ UNCHANGED <<acquired, rx, tx, byMe, holds>>

CallBody(t) ==
    /\ pc[t] = "body"
    /\ \E o \in {BodyOutcome(call[t], rx, comLockCount)} :
        /\ out' = [out EXCEPT ![t] = Returned(o)]
        /\ rx' = o.rest
        /\ tx' = tx \o o.sent
        /\ comLockCount' = o.cnt
    /\ pc' = [pc EXCEPT ![t] = "end"]
    /\ UNCHANGED <<comLockOwner, acquired, call, byMe, holds>>

\* the finally block; the caller then has the result
CallEnd(t) ==
    /\ pc[t] = "end"
    /\ comLockCount' = ReleaseFromTemporaryUsage(comLockCount)
    /\ comLockOwner' = IF comLockCount' = 0 THEN NoThread ELSE comLockOwner
    /\ pc' = [pc EXCEPT ![t] = "idle"]
    /\ call' = [call EXCEPT ![t] = NoCall]
    /\ out' = [out EXCEPT ![t] = NoReturn]
    /\ UNCHANGED <<acquired, rx, tx, byMe, holds>>

\* the caller of a call that raised at once carries on
CallRaised(t) ==
    /\ pc[t] = "raised"
    /\ pc' = [pc EXCEPT ![t] = "idle"]
    /\ out' = [out EXCEPT ![t] = NoReturn]
    /\ UNCHANGED <<comLockOwner, comLockCount, acquired, rx, tx, call, byMe, holds>>

(***************************************************************************)
(* acquire() and release()                                                 *)
(***************************************************************************)
AcquireLevel_Counting(alreadyAcquired, c) == c + 1

\* acquire(): a repeated acquisition by the holder gives its extra lock level back
AcquireLevel(alreadyAcquired, c) == IF alreadyAcquired THEN c ELSE c + 1

\* acquire(blocking = False)
Acquire(t) ==
    /\ pc[t] = "idle"
    /\ holds[t] < MaxHolds
    /\ IF RLockCanAcquire(comLockOwner, t)
       THEN /\ comLockOwner' = t
            /\ comLockCount' = AcquireLevel(acquired, comLockCount)
            /\ acquired' = TRUE
            /\ holds' = [holds EXCEPT ![t] = @ + 1]
       ELSE UNCHANGED <<comLockOwner, comLockCount, acquired, holds>>
    /\ UNCHANGED <<rx, tx, pc, call, out, byMe>>

\* release(), first half of IsAcquiredByMe: self._comLock.acquire(False)
ReleaseProbe(t) ==
    /\ pc[t] = "idle"
    /\ call' = [call EXCEPT ![t] = [NoCall EXCEPT !.op = "release", !.cnt0 = LevelOf(t),
                                                    !.own0 = OwnedBy(t)]]
    /\ IF RLockCanAcquire(comLockOwner, t)
       THEN /\ comLockOwner' = t
            /\ comLockCount' = comLockCount + 1
            /\ pc' = [pc EXCEPT ![t] = "rel_probe"]
            /\ UNCHANGED byMe
       ELSE /\ byMe' = [byMe EXCEPT ![t] = FALSE]
            /\ pc' = [pc EXCEPT ![t] = "rel_unlock"]
            /\ UNCHANGED <<comLockOwner, comLockCount>>
    /\ UNCHANGED <<acquired, rx, tx, out, holds>>

\* second half of IsAcquiredByMe: read the flag, give the probe's lock level back
ReleaseProbeEnd(t) ==
    /\ pc[t] = "rel_probe"
    /\ byMe' = [byMe EXCEPT ![t] = acquired]
    /\ comLockCount' = comLockCount - 1
    /\ comLockOwner' = IF comLockCount' = 0 THEN NoThread ELSE comLockOwner
    /\ pc' = [pc EXCEPT ![t] = "rel_unlock"]
    /\ UNCHANGED <<acquired, rx, tx, call, out, holds>>

ReleaseFlag_Unguarded(isAcquiredByMe, flag) == FALSE

\* if self.IsAcquiredByMe: self._acquired = False
ReleaseFlag(isAcquiredByMe, flag) == IF isAcquiredByMe THEN FALSE ELSE flag

\* the rest of release(): the guarded flag reset, then self._comLock.release(),
\* which raises RuntimeError for a thread that does not own the RLock
ReleaseUnlock(t) ==
    /\ pc[t] = "rel_unlock"
    /\ acquired' = ReleaseFlag(byMe[t], acquired)
    /\ IF comLockOwner = t
       THEN /\ comLockCount' = comLockCount - 1
            /\ comLockOwner' = IF comLockCount' = 0 THEN NoThread ELSE comLockOwner
            /\ holds' = [holds EXCEPT ![t] = IF @ > 0 THEN @ - 1 ELSE 0]
            /\ out' = [out EXCEPT ![t] = [NoReturn EXCEPT !.kind = "ok"]]
       ELSE /\ out' = [out EXCEPT ![t] = [NoReturn EXCEPT !.kind = "RuntimeError"]]
            /\ UNCHANGED <<comLockOwner, comLockCount, holds>>
    /\ pc' = [pc EXCEPT ![t] = "released"]
    /\ UNCHANGED <<rx, tx, call, byMe>>

\* release() has returned or raised; the caller carries on
ReleaseReturn(t) ==
    /\ pc[t] = "released"
    /\ pc' = [pc EXCEPT ![t] = "idle"]
    /\ call' = [call EXCEPT ![t] = NoCall]
    /\ out' = [out EXCEPT ![t] = NoReturn]
    /\ byMe' = [byMe EXCEPT ![t] = FALSE]
    /\ UNCHANGED <<comLockOwner, comLockCount, acquired, rx, tx, holds>>

NextConn ==
    \/ DeviceSend /\ UNCHANGED <<scanVars, otherVars>>
    \/ \E t \in Callers : CallBegin(t) /\ UNCHANGED <<scanVars, otherVars>>
    \/ \E t \in Callers : CallBody(t) /\ UNCHANGED <<scanVars, otherVars>>
    \/ \E t \in Callers : CallEnd(t) /\ UNCHANGED <<scanVars, otherVars>>
    \/ \E t \in Callers : CallRaised(t) /\ UNCHANGED <<scanVars, otherVars>>
    \/ \E t \in Callers : Acquire(t) /\ UNCHANGED <<scanVars, otherVars>>
    \/ \E t \in Callers : ReleaseProbe(t) /\ UNCHANGED <<scanVars, otherVars>>
    \/ \E t \in Callers : ReleaseProbeEnd(t) /\ UNCHANGED <<scanVars, otherVars>>
    \/ \E t \in Callers : ReleaseUnlock(t) /\ UNCHANGED <<scanVars, otherVars>>
    \/ \E t \in Callers : ReleaseReturn(t) /\ UNCHANGED <<scanVars, otherVars>>

SpecConn == InitConn /\ [][NextConn]_vars

(***************************************************************************)
(* The scan: Scan.start, Scan.abort, the scan thread and the thread that   *)
(* creates the scan images.  The variant is ReflectionScan, with the       *)
(* optional laser parameters and the auto focus left unset.                *)
(***************************************************************************)
\* the protocol calls of the scan thread, which holds the connection at level c
commandSet(buf, c, cmd) ==
    Let(commandSetBody(buf, AcquireForTemporaryUsage(c), cmd), LAMBDA o :
        [o EXCEPT !.cnt = ReleaseFromTemporaryUsage(o.cnt)])

commandGetUInt16(buf, c, cmd) ==
    Let(commandGetUIntBody(buf, AcquireForTemporaryUsage(c), cmd, 2), LAMBDA o :
        [o EXCEPT !.cnt = ReleaseFromTemporaryUsage(o.cnt)])

commandScanStart(buf, c, cmd) ==
    Let(commandScanStartBody(buf, AcquireForTemporaryUsage(c), cmd), LAMBDA o :
        [o EXCEPT !.cnt = ReleaseFromTemporaryUsage(o.cnt)])

\* what the device may answer to a command of the scan: the expected
\* response, an error line, or nothing until the timeout
ErrorLine == DLTS_RESPONSE_ERROR \o <<66, 13, 10>>
GetReplies == {DLTS_RESPONSE_DATA \o <<4, 210>>, ErrorLine, <<>>}
SetReplies == {DLTS_RESPONSE_ACKNOWLEDGE, ErrorLine, <<>>}
StartReplies == {DLTS_RESPONSE_DATA, ErrorLine, <<>>}
PointReplies == {<<1>>, <<2>>, <<>>}
StopReplies == {DLTS_RESPONSE_ACKNOWLEDGE, <<1>> \o DLTS_RESPONSE_ACKNOWLEDGE, <<>>}

\* the commands of the try block up to the acquisition loop, in order
SetupSteps ==
    <<"GetXTilt", "GetZPosition", "GetLaserIntensity",
      "SetXTilt", "SetZPosition", "SetLaserIntensity",
      "SetScanXAxisLowBoundary", "SetScanXAxisHighBoundary",
      "SetScanYAxisLowBoundary", "SetScanYAxisHighBoundary",
      "SetScanXStepSize", "SetScanYStepSize", "SetScanXDelay", "SetScanYDelay",
      "SetXPosition", "SetYPosition", "onScanStart">>

SetupGets == {"GetXTilt", "GetZPosition", "GetLaserIntensity"}

SetupReplies(step) ==
    IF step \in SetupGets THEN GetReplies
    ELSE IF step = "onScanStart" THEN StartReplies
    ELSE SetReplies

\* the value a set command of the setup encodes
SetupValue(step) ==
    CASE step = "SetXTilt" -> xTilt[1]
      [] step = "SetZPosition" -> zPosition[1]
      [] step = "SetLaserIntensity" -> laserIntensity[1]
      [] step = "SetScanXAxisLowBoundary" -> configuration.XBoundsLow
      [] step = "SetScanXAxisHighBoundary" -> configuration.XBoundsHigh
      [] step = "SetScanYAxisLowBoundary" -> configuration.YBoundsLow
      [] step = "SetScanYAxisHighBoundary" -> configuration.YBoundsHigh
      [] step = "SetScanXStepSize" -> configuration.XStepSize
      [] step = "SetScanYStepSize" -> configuration.YStepSize
      [] step = "SetScanXDelay" -> configuration.XStepDelay_ms
      [] step = "SetScanYDelay" -> configuration.YStepDelay_ms
      [] step = "SetXPosition" -> configuration.XBoundsLow
      [] step = "SetYPosition" -> configuration.YBoundsLow
      [] OTHER -> 0

SetCommand(step, value) ==
    CASE step = "SetXTilt" -> SetXTilt(value)
      [] step = "SetZPosition" -> SetZPosition(value)
      [] step = "SetLaserIntensity" -> SetLaserIntensity(value)
      [] step = "SetScanXAxisLowBoundary" -> SetScanXAxisLowBoundary(value)
      [] step = "SetScanXAxisHighBoundary" -> SetScanXAxisHighBoundary(value)
      [] step = "SetScanYAxisLowBoundary" -> SetScanYAxisLowBoundary(value)
      [] step = "SetScanYAxisHighBoundary" -> SetScanYAxisHighBoundary(value)
      [] step = "SetScanXStepSize" -> SetScanXStepSize(value)
      [] step = "SetScanYStepSize" -> SetScanYStepSize(value)
      [] step = "SetScanXDelay" -> SetScanXDelay(value)
      [] step = "SetScanYDelay" -> SetScanYDelay(value)
      [] step = "SetXPosition" -> SetXPosition(value)
      [] step = "SetYPosition" -> SetYPosition(value)

GetCommand(step) ==
    CASE step = "GetXTilt" -> GetXTilt
      [] step = "GetZPosition" -> GetZPosition
      [] step = "GetLaserIntensity" -> GetLaserIntensity

\* a set command whose value does not fit raises before anything is written
ScanSet(buf, c, step, value) ==
    IF UInt16Overflow(value)
    THEN Outcome("DltsException", None, buf, <<>>, c)
    ELSE commandSet(buf, c, SetCommand(step, value))

\* one command of the setup on a transport holding buf
SetupCall(step, buf, c) ==
    IF step \in SetupGets THEN commandGetUInt16(buf, c, GetCommand(step))
    ELSE IF step = "onScanStart" THEN commandScanStart(buf, c, ActionScanArea)
    ELSE ScanSet(buf, c, step, SetupValue(step))

\* "if self._xTilt is None: self._xTilt = cachedXTilt"
Default(param, cachedValue) == IF param = None THEN cachedValue ELSE param

\* the commands of the finally block, in order
RestoreSteps == <<"SetXTilt", "SetZPosition", "SetLaserIntensity">>

\* the scan thread's exchange with the device
Exchange(o) ==
    /\ rx' = o.rest
    /\ tx' = tx \o o.sent
    /\ comLockCount' = o.cnt
    /\ UNCHANGED <<comLockOwner, acquired, pc, call, out, byMe, holds>>

\* "if not self.isRunning() and not self.isFinished()"
StartGuard_NotRunning(running, finished) == ~running

StartGuard(running, finished) == ~running /\ ~finished

StartCheck(t) ==
    /\ pc[t] = "idle"
    /\ IF StartGuard(isRunning, isFinished)
       THEN pc' = [pc EXCEPT ![t] = "start_go"]
       ELSE pc' = [pc EXCEPT ![t] = "start_noop"]
    /\ UNCHANGED <<comLockOwner, comLockCount, acquired, rx, tx, call, out, byMe, holds,
                   scanVars>>
    /\ UNCHANGED otherVars

\* Thread.start(), after which start() returns; a thread can only be started
\* once, a second start raises RuntimeError
StartThread(t) ==
    /\ pc[t] = "start_go"
    /\ IF scanThread = "initial"
       THEN /\ scanThread' = "alive"
            /\ runs' = runs + 1
            /\ pc' = [pc EXCEPT ![t] = "idle"]
       ELSE /\ pc' = [pc EXCEPT ![t] = "start_raised"]
            /\ UNCHANGED <<scanThread, runs>>
    /\ UNCHANGED <<comLockOwner, comLockCount, acquired, rx, tx, call, out, byMe, holds,
                   configuration, xTilt, zPosition, laserIntensity, scanImages, dataPoints,
                   startTime, finishTime, scanFinished, abortRequested, scanningForDataPoints,
                   dataPointsLock, scanImagesLock, scanImagesCreationThread,
                   spc, si, cached, dataPoint, length, ipc, scanImagesDirty, snapshot>>
    /\ UNCHANGED otherVars

\* "if self.isRunning() and self._scanningForDataPoints"
AbortGuard_Running(running, scanning) == running

AbortGuard(running, scanning) == running /\ scanning

AbortCheck(t) ==
    /\ pc[t] = "idle"
    /\ IF AbortGuard(isRunning, scanningForDataPoints)
       THEN pc' = [pc EXCEPT ![t] = "abort_set"]
       ELSE pc' = [pc EXCEPT ![t] = "abort_noop"]
    /\ UNCHANGED <<comLockOwner, comLockCount, acquired, rx, tx, call, out, byMe, holds,
                   scanVars>>
    /\ UNCHANGED otherVars

\* "self._abortRequested = True", after which abort() returns
AbortSet(t) ==
    /\ pc[t] = "abort_set"
    /\ abortRequested' = TRUE
    /\ pc' = [pc EXCEPT ![t] = "idle"]
    /\ UNCHANGED <<comLockOwner, comLockCount, acquired, rx, tx, call, out, byMe, holds,
                   configuration, xTilt, zPosition, laserIntensity, scanImages, dataPoints,
                   startTime, finishTime, scanFinished, scanningForDataPoints,
                   dataPointsLock, scanImagesLock, scanThread, scanImagesCreationThread,
                   scanLocals>>
    /\ UNCHANGED otherVars

\* start() or abort() is back at its caller without having done anything
GuiReturn(t) ==
    /\ pc[t] \in {"start_noop", "start_raised", "abort_noop"}
    /\ pc' = [pc EXCEPT ![t] = "idle"]
    /\ UNCHANGED <<comLockOwner, comLockCount, acquired, rx, tx, call, out, byMe, holds,
                   scanVars>>
    /\ UNCHANGED otherVars

\* _scanThreadTarget up to the try block: "with self._dltsConnection", which blocks
ScanEnter ==
    /\ scanThread = "alive" /\ spc = "enter"
    /\ RLockCanAcquire(comLockOwner, ScanThread)
    /\ startTime' = TRUE
    /\ comLockOwner' = ScanThread
    /\ comLockCount' = AcquireLevel(comLockOwner = ScanThread /\ acquired, comLockCount)
    /\ acquired' = TRUE
    /\ spc' = "setup"
    /\ si' = 1
    /\ cached' = <<None, None, None>>
    /\ UNCHANGED <<rx, tx, pc, call, out, byMe, holds,
                   configuration, xTilt, zPosition, laserIntensity, scanImages, dataPoints,
                   finishTime, scanFinished, abortRequested, scanningForDataPoints,
                   dataPointsLock, scanImagesLock, scanThread, scanImagesCreationThread,
                   dataPoint, length, ipc, scanImagesDirty, snapshot, runs>>
    /\ UNCHANGED otherVars

\* one command of the setup; an exception leaves the try block
ScanSetup ==
    /\ scanThread = "alive" /\ spc = "setup"
    /\ \E reply \in SetupReplies(SetupSteps[si]) :
       \E o \in {SetupCall(SetupSteps[si], rx \o reply, comLockCount)} :
         LET step == SetupSteps[si]
             got == IF step \in SetupGets /\ o.kind = "ok"
                    THEN [cached EXCEPT ![si] = o.data] ELSE cached
             filled == o.kind = "ok" /\ step = "GetLaserIntensity"
         IN  /\ Exchange(o)
             /\ cached' = got
             /\ xTilt' = IF filled THEN Default(xTilt, got[1]) ELSE xTilt
             /\ zPosition' = IF filled THEN Default(zPosition, got[2]) ELSE zPosition
             /\ laserIntensity' = IF filled THEN Default(laserIntensity, got[3]) ELSE laserIntensity
             /\ IF o.kind # "ok"
                THEN spc' = "finally" /\ si' = si
                ELSE IF si < Len(SetupSteps)
                THEN spc' = "setup" /\ si' = si + 1
                ELSE spc' = "scanning" /\ si' = si
    /\ UNCHANGED <<configuration, scanImages, dataPoints,
                   startTime, finishTime, scanFinished, abortRequested, scanningForDataPoints,
                   dataPointsLock, scanImagesLock, scanThread, scanImagesCreationThread,
                   dataPoint, length, ipc, scanImagesDirty, snapshot, runs>>
    /\ UNCHANGED otherVars

\* "self._scanningForDataPoints = True"
ScanScanning ==
    /\ scanThread = "alive" /\ spc = "scanning"
    /\ scanningForDataPoints' = TRUE
    /\ spc' = "images"
    /\ UNCHANGED <<connVars, configuration, xTilt, zPosition, laserIntensity, scanImages,
                   dataPoints, startTime, finishTime, scanFinished, abortRequested,
                   dataPointsLock, scanImagesLock, scanThread, scanImagesCreationThread,
                   si, cached, dataPoint, length, ipc, scanImagesDirty, snapshot, runs>>
    /\ UNCHANGED otherVars

\* "self._scanImagesCreationThread.start()"
ScanStartImages ==
    /\ scanThread = "alive" /\ spc = "images"
    /\ scanImagesCreationThread' = "alive"
    /\ ipc' = "loop"
    /\ scanImagesDirty' = TRUE
    /\ spc' = "loop"
    /\ UNCHANGED <<connVars, configuration, xTilt, zPosition, laserIntensity, scanImages,
                   dataPoints, startTime, finishTime, scanFinished, abortRequested,
                   scanningForDataPoints, dataPointsLock, scanImagesLock, scanThread,
                   si, cached, dataPoint, length, snapshot, runs>>
    /\ UNCHANGED otherVars

\* "while self._scanningForDataPoints"
ScanLoop ==
    /\ scanThread = "alive" /\ spc = "loop"
    /\ spc' = IF scanningForDataPoints THEN "receive" ELSE "finally"
    /\ UNCHANGED <<connVars, scanState, si, cached, dataPoint, length, ipc,
                   scanImagesDirty, snapshot, runs>>
    /\ UNCHANGED otherVars

\* ReflectionScan.onReceiveDataPoint: read(1)
ScanReceive ==
    /\ scanThread = "alive" /\ spc = "receive"
    /\ \E reply \in PointReplies :
       \E o \in {read(rx \o reply, comLockCount, 1, TRUE)} :
         /\ Exchange(o)
         /\ IF o.kind = "ok"
            THEN dataPoint' = o.data /\ spc' = "append"
            ELSE dataPoint' = dataPoint /\ spc' = "finally"
    /\ UNCHANGED <<scanState, si, cached, length, ipc, scanImagesDirty, snapshot, runs>>
    /\ UNCHANGED otherVars

\* "with self._dataPointsLock: self._dataPoints.append(dataPoint)"
ScanAppend ==
    /\ scanThread = "alive" /\ spc = "append"
    /\ dataPointsLock = NoThread
    /\ dataPointsLock' = ScanThread
    /\ dataPoints' = dataPoints \o dataPoint
    /\ spc' = "appended"
    /\ UNCHANGED <<connVars, configuration, xTilt, zPosition, laserIntensity, scanImages,
                   startTime, finishTime, scanFinished, abortRequested, scanningForDataPoints,
                   scanImagesLock, scanThread, scanImagesCreationThread,
                   si, cached, dataPoint, length, ipc, scanImagesDirty, snapshot, runs>>
    /\ UNCHANGED otherVars

ScanAppended ==
    /\ scanThread = "alive" /\ spc = "appended"
    /\ dataPointsLock' = NoThread
    /\ spc' = "abort"
    /\ UNCHANGED <<connVars, configuration, xTilt, zPosition, laserIntensity, scanImages,
                   dataPoints, startTime, finishTime, scanFinished, abortRequested,
                   scanningForDataPoints, scanImagesLock, scanThread, scanImagesCreationThread,
                   si, cached, dataPoint, length, ipc, scanImagesDirty, snapshot, runs>>
    /\ UNCHANGED otherVars

\* "if self._abortRequested: self.onScanAbort(dltsConnection)"
ScanAbortTest ==
    /\ scanThread = "alive" /\ spc = "abort"
    /\ spc' = IF abortRequested THEN "onScanAbort" ELSE "count"
    /\ UNCHANGED <<connVars, scanState, si, cached, dataPoint, length, ipc,
                   scanImagesDirty, snapshot, runs>>
    /\ UNCHANGED otherVars

\* ReflectionScan.onScanAbort: commandSkipUntilResponse(ActionScanStop(), "ack")
ScanOnScanAbort ==
    /\ scanThread = "alive" /\ spc = "onScanAbort"
    /\ \E reply \in StopReplies :
       \E o \in {commandSkipUntilResponse(rx \o reply, comLockCount, ActionScanStop,
                                         Str(DLTS_RESPONSE_ACKNOWLEDGE))} :
         /\ Exchange(o)
         /\ spc' = IF o.kind = "ok" THEN "count" ELSE "finally"
    /\ UNCHANGED <<scanState, si, cached, dataPoint, length, ipc, scanImagesDirty,
                   snapshot, runs>>
    /\ UNCHANGED otherVars

\* getScannedPointsCount() for the progress line: "with self._dataPointsLock"
ScanCount ==
    /\ scanThread = "alive" /\ spc = "count"
    /\ dataPointsLock = NoThread
    /\ dataPointsLock' = ScanThread
    /\ length' = Len(dataPoints)
    /\ spc' = "counted"
    /\ UNCHANGED <<connVars, configuration, xTilt, zPosition, laserIntensity, scanImages,
                   dataPoints, startTime, finishTime, scanFinished, abortRequested,
                   scanningForDataPoints, scanImagesLock, scanThread, scanImagesCreationThread,
                   si, cached, dataPoint, ipc, scanImagesDirty, snapshot, runs>>
    /\ UNCHANGED otherVars

ScanCounted ==
    /\ scanThread = "alive" /\ spc = "counted"
    /\ dataPointsLock' = NoThread
    /\ spc' = "stop"
    /\ UNCHANGED <<connVars, configuration, xTilt, zPosition, laserIntensity, scanImages,
                   dataPoints, startTime, finishTime, scanFinished, abortRequested,
                   scanningForDataPoints, scanImagesLock, scanThread, scanImagesCreationThread,
                   si, cached, dataPoint, length, ipc, scanImagesDirty, snapshot, runs>>
    /\ UNCHANGED otherVars

\* "if self._abortRequested or ...": the abort flag decides first
ScanStopTest ==
    /\ scanThread = "alive" /\ spc = "stop"
    /\ IF abortRequested
       THEN scanningForDataPoints' = FALSE /\ spc' = "loop"
       ELSE scanningForDataPoints' = scanningForDataPoints /\ spc' = "recount"
    /\ UNCHANGED <<connVars, configuration, xTilt, zPosition, laserIntensity, scanImages,
                   dataPoints, startTime, finishTime, scanFinished, abortRequested,
                   dataPointsLock, scanImagesLock, scanThread, scanImagesCreationThread,
                   si, cached, dataPoint, length, ipc, scanImagesDirty, snapshot, runs>>
    /\ UNCHANGED otherVars

AllPointsScanned_Never(count, capacity) == FALSE

\* a loop that stops one data point late
AllPointsScanned_Beyond(count, capacity) == count > capacity

\* "... self.getScannedPointsCount() >= self.getScanPointsCount()"
AllPointsScanned(count, capacity) == count >= capacity

ScanRecount ==
    /\ scanThread = "alive" /\ spc = "recount"
    /\ dataPointsLock = NoThread
    /\ dataPointsLock' = ScanThread
    /\ length' = Len(dataPoints)
    /\ spc' = "recounted"
    /\ UNCHANGED <<connVars, configuration, xTilt, zPosition, laserIntensity, scanImages,
                   dataPoints, startTime, finishTime, scanFinished, abortRequested,
                   scanningForDataPoints, scanImagesLock, scanThread, scanImagesCreationThread,
                   si, cached, dataPoint, ipc, scanImagesDirty, snapshot, runs>>
    /\ UNCHANGED otherVars

ScanRecounted ==
    /\ scanThread = "alive" /\ spc = "recounted"
    /\ dataPointsLock' = NoThread
    /\ scanningForDataPoints' = IF AllPointsScanned(length, getScanPointsCount) THEN FALSE
                                ELSE scanningForDataPoints
    /\ spc' = "loop"
    /\ UNCHANGED <<connVars, configuration, xTilt, zPosition, laserIntensity, scanImages,
                   dataPoints, startTime, finishTime, scanFinished, abortRequested,
                   scanImagesLock, scanThread, scanImagesCreationThread,
                   si, cached, dataPoint, length, ipc, scanImagesDirty, snapshot, runs>>
    /\ UNCHANGED otherVars

\* the finally block: "self._scanningForDataPoints = False"
ScanFinally ==
    /\ scanThread = "alive" /\ spc = "finally"
    /\ scanningForDataPoints' = FALSE
    /\ spc' = "restore"
    /\ si' = 1
    /\ UNCHANGED <<connVars, configuration, xTilt, zPosition, laserIntensity, scanImages,
                   dataPoints, startTime, finishTime, scanFinished, abortRequested,
                   dataPointsLock, scanImagesLock, scanThread, scanImagesCreationThread,
                   cached, dataPoint, length, ipc, scanImagesDirty, snapshot, runs>>
    /\ UNCHANGED otherVars

\* the restore commands share one try block: the first that raises ends it
ScanRestore ==
    /\ scanThread = "alive" /\ spc = "restore"
    /\ IF cached[si] = None
       THEN /\ UNCHANGED connVars
            /\ IF si < Len(RestoreSteps)
               THEN spc' = "restore" /\ si' = si + 1
               ELSE spc' = "exit" /\ si' = si
       ELSE \E reply \in SetReplies :
            \E o \in {ScanSet(rx \o reply, comLockCount, RestoreSteps[si], cached[si][1])} :
              /\ Exchange(o)
              /\ IF o.kind = "ok" /\ si < Len(RestoreSteps)
                 THEN spc' = "restore" /\ si' = si + 1
                 ELSE spc' = "exit" /\ si' = si
    /\ UNCHANGED <<scanState, cached, dataPoint, length, ipc, scanImagesDirty, snapshot, runs>>
    /\ UNCHANGED otherVars

\* __exit__: release(); releasing an RLock the thread does not own raises
\* RuntimeError, which ends the thread
ScanExit ==
    /\ scanThread = "alive" /\ spc = "exit"
    /\ IF comLockOwner = ScanThread
       THEN /\ acquired' = ReleaseFlag(TRUE, acquired)
            /\ comLockCount' = comLockCount - 1
            /\ comLockOwner' = IF comLockCount = 1 THEN NoThread ELSE comLockOwner
            /\ spc' = "join"
            /\ UNCHANGED scanThread
       ELSE /\ spc' = "done"
            /\ scanThread' = "stopped"
            /\ UNCHANGED <<acquired, comLockCount, comLockOwner>>
    /\ UNCHANGED <<rx, tx, pc, call, out, byMe, holds,
                   configuration, xTilt, zPosition, laserIntensity, scanImages, dataPoints,
                   startTime, finishTime, scanFinished, abortRequested, scanningForDataPoints,
                   dataPointsLock, scanImagesLock, scanImagesCreationThread,
                   si, cached, dataPoint, length, ipc, scanImagesDirty, snapshot, runs>>
    /\ UNCHANGED otherVars

\* "if self._scanImagesCreationThread.is_alive(): ...join()"
ScanJoin ==
    /\ scanThread = "alive" /\ spc = "join"
    /\ scanImagesCreationThread # "alive"
    /\ spc' = "finish"
    /\ UNCHANGED <<connVars, scanState, si, cached, dataPoint, length, ipc,
                   scanImagesDirty, snapshot, runs>>
    /\ UNCHANGED otherVars

\* "self._finishTime = ...; self._scanFinished = True"
ScanFinish ==
    /\ scanThread = "alive" /\ spc = "finish"
    /\ finishTime' = TRUE
    /\ scanFinished' = TRUE
    /\ spc' = "return"
    /\ UNCHANGED <<connVars, configuration, xTilt, zPosition, laserIntensity, scanImages,
                   dataPoints, startTime, abortRequested, scanningForDataPoints,
                   dataPointsLock, scanImagesLock, scanThread, scanImagesCreationThread,
                   si, cached, dataPoint, length, ipc, scanImagesDirty, snapshot, runs>>
    /\ UNCHANGED otherVars

\* the thread target returns: is_alive() becomes False
ScanReturn ==
    /\ scanThread = "alive" /\ spc = "return"
    /\ scanThread' = "stopped"
    /\ spc' = "done"
    /\ UNCHANGED <<connVars, configuration, xTilt, zPosition, laserIntensity, scanImages,
                   dataPoints, startTime, finishTime, scanFinished, abortRequested,
                   scanningForDataPoints, dataPointsLock, scanImagesLock,
                   scanImagesCreationThread,
                   si, cached, dataPoint, length, ipc, scanImagesDirty, snapshot, runs>>
    /\ UNCHANGED otherVars

\* the loop test of the images thread, once the pass is over
ImagesLoop_Forever(dirty) == TRUE

\* "while scanImagesDirty"
ImagesLoop(dirty) == dirty

\* a pass that never asks for another one
ImagesDirty_Clean(scanning) == FALSE

\* "scanImagesDirty = self._scanningForDataPoints"
ImagesDirty(scanning) == scanning

\* "while scanImagesDirty: scanImagesDirty = self._scanningForDataPoints"
ImagesTest ==
    /\ scanImagesCreationThread = "alive" /\ ipc = "loop"
    /\ IF ImagesLoop(scanImagesDirty)
       THEN /\ scanImagesDirty' = ImagesDirty(scanningForDataPoints)
            /\ ipc' = "getDataPoints"
            /\ UNCHANGED scanImagesCreationThread
       ELSE /\ ipc' = "done"
            /\ scanImagesCreationThread' = "stopped"
            /\ UNCHANGED scanImagesDirty
    /\ UNCHANGED <<connVars, configuration, xTilt, zPosition, laserIntensity, scanImages,
                   dataPoints, startTime, finishTime, scanFinished, abortRequested,
                   scanningForDataPoints, dataPointsLock, scanImagesLock, scanThread,
                   spc, si, cached, dataPoint, length, snapshot, runs>>
    /\ UNCHANGED otherVars

\* getDataPoints(): "with self._dataPointsLock: return tuple(self._dataPoints)"
ImagesGetDataPoints ==
    /\ scanImagesCreationThread = "alive" /\ ipc = "getDataPoints"
    /\ dataPointsLock = NoThread
    /\ dataPointsLock' = ImagesThread
    /\ snapshot' = dataPoints
    /\ ipc' = "gotDataPoints"
    /\ UNCHANGED <<connVars, configuration, xTilt, zPosition, laserIntensity, scanImages,
                   dataPoints, startTime, finishTime, scanFinished, abortRequested,
                   scanningForDataPoints, scanImagesLock, scanThread, scanImagesCreationThread,
                   spc, si, cached, dataPoint, length, scanImagesDirty, runs>>
    /\ UNCHANGED otherVars

\* a with block that keeps its lock when it is left
WithExit_Kept(holder) == holder

\* the end of "with self._dataPointsLock" or "with self._scanImagesLock"
WithExit(holder) == NoThread

ImagesGotDataPoints ==
    /\ scanImagesCreationThread = "alive" /\ ipc = "gotDataPoints"
    /\ dataPointsLock' = WithExit(dataPointsLock)
    /\ ipc' = "create"
    /\ UNCHANGED <<connVars, configuration, xTilt, zPosition, laserIntensity, scanImages,
                   dataPoints, startTime, finishTime, scanFinished, abortRequested,
                   scanningForDataPoints, scanImagesLock, scanThread, scanImagesCreationThread,
                   spc, si, cached, dataPoint, length, scanImagesDirty, snapshot, runs>>
    /\ UNCHANGED otherVars

\* createScanImages(points), then "with self._scanImagesLock: self._scanImages = ..."
ImagesPublish ==
    /\ scanImagesCreationThread = "alive" /\ ipc = "create"
    /\ scanImagesLock = NoThread
    /\ scanImagesLock' = ImagesThread
    /\ scanImages' = [built |-> TRUE, points |-> snapshot]
    /\ ipc' = "published"
    /\ UNCHANGED <<connVars, configuration, xTilt, zPosition, laserIntensity,
                   dataPoints, startTime, finishTime, scanFinished, abortRequested,
                   scanningForDataPoints, dataPointsLock, scanThread, scanImagesCreationThread,
                   spc, si, cached, dataPoint, length, scanImagesDirty, snapshot, runs>>
    /\ UNCHANGED otherVars

\* createScanImages raises: the thread logs the exception and ends
ImagesFail ==
    /\ scanImagesCreationThread = "alive" /\ ipc = "create"
    /\ ipc' = "failed"
    /\ scanImagesCreationThread' = "stopped"
    /\ UNCHANGED <<connVars, configuration, xTilt, zPosition, laserIntensity, scanImages,
                   dataPoints, startTime, finishTime, scanFinished, abortRequested,
                   scanningForDataPoints, dataPointsLock, scanImagesLock, scanThread,
                   spc, si, cached, dataPoint, length, scanImagesDirty, snapshot, runs>>
    /\ UNCHANGED otherVars

\* the lock is released and the thread sleeps for the creation interval
ImagesPublished ==
    /\ scanImagesCreationThread = "alive" /\ ipc = "published"
    /\ scanImagesLock' = NoThread
    /\ ipc' = "loop"
    /\ UNCHANGED <<connVars, configuration, xTilt, zPosition, laserIntensity, scanImages,
                   dataPoints, startTime, finishTime, scanFinished, abortRequested,
                   scanningForDataPoints, dataPointsLock, scanThread, scanImagesCreationThread,
                   spc, si, cached, dataPoint, length, scanImagesDirty, snapshot, runs>>
    /\ UNCHANGED otherVars

ScanStep ==
    \/ ScanEnter
    \/ ScanSetup
    \/ ScanScanning
    \/ ScanStartImages
    \/ ScanLoop
    \/ ScanReceive
    \/ ScanAppend
    \/ ScanAppended
    \/ ScanAbortTest
    \/ ScanOnScanAbort
    \/ ScanCount
    \/ ScanCounted
    \/ ScanStopTest
    \/ ScanRecount
    \/ ScanRecounted
    \/ ScanFinally
    \/ ScanRestore
    \/ ScanExit
    \/ ScanJoin
    \/ ScanFinish
    \/ ScanReturn

ImagesStep ==
    \/ ImagesTest
    \/ ImagesGetDataPoints
    \/ ImagesGotDataPoints
    \/ ImagesPublish
    \/ ImagesFail
    \/ ImagesPublished

InitScanning ==
    /\ comLockOwner = NoThread
    /\ comLockCount = 0
    /\ acquired = FALSE
    /\ rx = <<>>
    /\ tx = <<>>
    /\ pc = [t \in Callers |-> "idle"]
    /\ call = [t \in Callers |-> NoCall]
    /\ out = [t \in Callers |-> NoReturn]
    /\ byMe = [t \in Callers |-> FALSE]
    /\ holds = [t \in Callers |-> 0]
    /\ \E cfg \in Configs : InitScan(cfg, <<7>>)
    /\ InitDlts(1)
    /\ InitCombo(TRUE)
    /\ InitCall

NextScan ==
    \/ StartCheck(Gui)
    \/ StartThread(Gui)
    \/ AbortCheck(Gui)
    \/ AbortSet(Gui)
    \/ GuiReturn(Gui)
    \/ ScanStep
    \/ ImagesStep

SpecScan == InitScanning /\ [][NextScan]_vars

\* Both threads are scheduled and a call of abort() runs to its end.  The
\* scan thread is not starved of _dataPointsLock: the images thread sleeps
\* for the creation interval between two passes.
FairSpecScan ==
    /\ SpecScan
    /\ SF_vars(ScanStep)
    /\ WF_vars(ImagesStep)
    /\ WF_vars(AbortSet(Gui))

(***************************************************************************)
(* Properties of the connection                                            *)
(***************************************************************************)
CommandOps == {"command", "commandGetUInt"}

\* C1: a command()-based call whose response header is `err` instead of the
\* expected header fails with DltsFirmwareError (it never returns normally).
C1_FirmwareErrorRaised ==
    \A t \in Callers :
        (/\ pc[t] = "end"
         /\ call[t].op \in CommandOps
         /\ out[t].hdr = DLTS_RESPONSE_ERROR
         /\ call[t].expected # DLTS_RESPONSE_ERROR)
        => out[t].kind = "DltsFirmwareError"

\* C2: a command() whose response header is neither the expected header nor
\* `err` fails with DltsProtocolError (it never returns normally).
C2_ProtocolErrorRaised ==
    \A t \in Callers :
        (/\ pc[t] = "end"
         /\ call[t].op = "command"
         /\ out[t].hdr # None
         /\ IsAscii(out[t].hdr)
         /\ out[t].hdr # call[t].expected
         /\ out[t].hdr # DLTS_RESPONSE_ERROR)
        => out[t].kind = "DltsProtocolError"

\* C3: command() expecting `dat` and N > 0 payload bytes returns exactly the N
\* bytes that follow the header `dat` when the transport delivers them, and
\* fails with DltsTimeoutError when the transport delivers fewer than 3 header
\* bytes, or the header `dat` and fewer than N payload bytes.
C3_DataOrTimeout ==
    [][\A t \in Callers :
        (/\ pc[t] = "body" /\ pc'[t] = "end"
         /\ call[t].op = "command"
         /\ call[t].expected = DLTS_RESPONSE_DATA
         /\ call[t].n > 0)
        => LET N == call[t].n
               H == DLTS_RESPONSE_HEADER_LENGTH
           IN  /\ (Len(rx) >= H + N /\ Take(rx, H) = DLTS_RESPONSE_DATA)
                    => /\ out'[t].kind = "ok"
                       /\ out'[t].data = SubSeq(rx, H + 1, H + N)
                       /\ rx' = Drop(rx, H + N)
               /\ (Len(rx) < H \/ (Take(rx, H) = DLTS_RESPONSE_DATA /\ Len(rx) < H + N))
                    => out'[t].kind = "DltsTimeoutError"]_vars

\* header `dat` arrived, one payload byte of two followed, the call timed out
C3_Witness ==
    \E t \in Callers :
        /\ pc[t] = "end"
        /\ call[t].op = "command"
        /\ call[t].expected = DLTS_RESPONSE_DATA
        /\ call[t].n = 2
        /\ out[t].hdr = DLTS_RESPONSE_DATA
        /\ out[t].kind = "DltsTimeoutError"
        /\ rx = <<>>

\* C4: while a thread owns the connection, a protocol call begun by another
\* thread fails at once with DltsConnectionAcquisitionError and leaves the
\* transport untouched; only the thread that owns the lock moves bytes.
C4_Exclusive ==
    [][/\ \A u \in Callers :
            (/\ pc[u] = "idle" /\ pc'[u] \in {"body", "raised"}
             /\ comLockOwner \notin {NoThread, u})
            => /\ pc'[u] = "raised"
               /\ out'[u].kind = "DltsConnectionAcquisitionError"
               /\ rx' = rx /\ tx' = tx
               /\ UNCHANGED <<comLockOwner, comLockCount, acquired>>
       /\ (tx' # tx \/ Len(rx') < Len(rx))
            => \E t \in Callers : pc[t] = "body" /\ pc'[t] = "end" /\ comLockOwner = t
       /\ \A t, u \in Callers :
            (t # u /\ pc[t] \in {"body", "end"}) => pc[u] \notin {"body", "end"}]_vars

\* one thread has acquired the connection, another one's call has just failed
C4_Witness ==
    \E t, u \in Callers :
        /\ t # u
        /\ OwnedBy(t)
        /\ pc[u] = "raised"
        /\ out[u].kind = "DltsConnectionAcquisitionError"

\* C5: a protocol call leaves the caller's ownership as it found it, whether
\* it returns or raises: the same lock level, the same acquisition, and a
\* caller that did not own the connection does not own it afterwards.
C5_OwnershipPreserved ==
    [][\A t \in Callers :
        (pc[t] \in {"end", "raised"} /\ pc'[t] = "idle")
        => /\ LevelOf(t)' = call[t].cnt0
           /\ OwnedBy(t)' = call[t].own0
           /\ (call[t].cnt0 = 0 => comLockOwner' # t)]_vars

\* a thread that had acquired the connection is about to leave a command()
\* that timed out
C5_Witness ==
    \E t \in Callers :
        /\ pc[t] = "end"
        /\ call[t].op = "command"
        /\ call[t].own0
        /\ out[t].kind = "DltsTimeoutError"

\* C6 as claimed: release() by a thread that has not acquired the connection
\* raises nothing.
C6_ReleaseNoOp ==
    \A t \in Callers :
        (pc[t] = "released" /\ ~call[t].own0) => out[t].kind = "ok"

\* C6: release() by a thread that has not acquired the connection raises
\* RuntimeError and leaves the lock and the acquisition flag unchanged.
C6_ReleaseRaises ==
    [][\A t \in Callers :
        (pc[t] = "rel_unlock" /\ pc'[t] = "released" /\ ~call[t].own0)
        => /\ LevelOf(t) = 0
           /\ out'[t].kind = "RuntimeError"
           /\ UNCHANGED <<comLockOwner, comLockCount, acquired>>]_vars

\* release() has raised in a thread while another thread holds the connection
C6_Witness ==
    \E t, u \in Callers :
        /\ t # u
        /\ pc[t] = "released"
        /\ ~call[t].own0
        /\ out[t].kind = "RuntimeError"
        /\ OwnedBy(u)

\* C7 as claimed: a thread that has called acquire() more often than release()
\* still holds the connection.
C7_OneLevelPerRelease ==
    \A t \in Callers : (pc[t] = "idle" /\ holds[t] >= 1) => OwnedBy(t)

\* C7: acquisition is not counted; a release() by the holder frees the
\* connection whatever the number of acquire() calls before it.
C7_ReleaseFrees ==
    [][\A t \in Callers :
        (pc[t] = "rel_unlock" /\ pc'[t] = "released" /\ call[t].own0)
        => /\ out'[t].kind = "ok"
           /\ ~acquired'
           /\ comLockOwner' = NoThread]_vars

\* a thread acquired twice and released once, and another thread now holds
C7_Witness ==
    \E t, u \in Callers :
        /\ t # u
        /\ pc[t] = "idle"
        /\ holds[t] >= 1
        /\ OwnedBy(u)

(***************************************************************************)
(* Properties of the scan                                                  *)
(***************************************************************************)
\* C8: once abort() has found the scan mid-acquisition (running, with
\* scanningForDataPoints true), the scan eventually is finished and aborted,
\* and it is then completed exactly when its point count has reached the
\* capacity of the scan area.
C8_AbortFinishes ==
    (\E t \in Callers : pc[t] = "abort_set")
        ~> (/\ isFinished
            /\ isAborted
            /\ (isCompleted <=> Len(dataPoints) >= getScanPointsCount))

C8_Witness ==
    /\ isFinished
    /\ isAborted
    /\ ~isCompleted
    /\ Len(dataPoints) > 0

C10_StartOnce ==
    [][/\ \A t \in Callers :
            (/\ pc[t] = "idle"
             /\ pc'[t] \in {"start_go", "start_noop"}
             /\ (isRunning \/ isFinished))
            => (/\ pc'[t] = "start_noop"
                /\ UNCHANGED <<scanVars, comLockOwner, comLockCount, acquired, rx, tx>>)
       /\ \A t \in Callers : pc'[t] # "start_raised"
       /\ runs' <= 1
       /\ ~(isRunning' /\ isFinished')
       /\ isFinished => isFinished'
      ]_vars

C10_Witness ==
    /\ pc[Gui] = "start_noop"
    /\ isFinished
    /\ runs = 1

\* the restore commands of the finally block for the parameters that were cached
RestoreCommand(j) ==
    IF cached[j] = None THEN <<>> ELSE <<SetCommand(RestoreSteps[j], cached[j][1])>>

RestoreCommands == RestoreCommand(1) \o RestoreCommand(2) \o RestoreCommand(3)

\* C11: when the scan thread has left the finally block, the last commands
\* written to the transport are the restore commands of every parameter that
\* was cached (x tilt, z position, laser intensity).
C11_RestoreAllSent ==
    spc \in {"exit", "join", "finish", "return", "done"}
        => EndsWith(tx, RestoreCommands)

(***************************************************************************)
(* Dlts: the facade.  One thread calls it.  A scan handed to startScan is  *)
(* followed as far as the facade can see it: its thread is started, sets   *)
(* _scanFinished and ends.                                                 *)
(***************************************************************************)
SetLaserPulseIntensity(intensity) == SetUInt16(<<108, 112>>, intensity)
SetLaserPulseFrequency(frequency) == SetUInt16(<<108, 102>>, frequency)
ActionLaserPulse == <<97, 108, 112>>

\* Scan.isRunning and Scan.isFinished of a scan object
scanIsRunning(s) == threadOf[s] = "alive"
scanIsFinished(s) == finishedOf[s] /\ ~scanIsRunning(s)

\* a facade that takes every connection for open
IsConnected_Always == TRUE

IsConnected == dltsConnectionIsOpen

IsScanRunning_Never == FALSE

\* "self._scan is not None and self._scan.isRunning()"
IsScanRunning == dltsScan # NoScan /\ scanIsRunning(dltsScan)

DltsConnectionGuard_ConnectedOnly(connected, scanRunning) ==
    IF ~connected THEN "DltsControlFlowError" ELSE "none"

\* the property _DltsConnection: what it raises
DltsConnectionGuard(connected, scanRunning) ==
    IF ~connected THEN "DltsControlFlowError"
    ELSE IF scanRunning THEN "DltsControlFlowError"
    ELSE "none"

\* a facade call on a transport holding buf: the connection is fetched
\* through the property before the command is built and sent; the device
\* answers reply to a command that is written
DltsConnection(buf, c, o) ==
    IF DltsConnectionGuard(IsConnected, IsScanRunning) # "none"
    THEN Outcome(DltsConnectionGuard(IsConnected, IsScanRunning), None, buf, <<>>, c)
    ELSE o

\* the setters and getters of the facade
DltsSetters == {"setX", "setLaserPulseIntensity", "setLaserPulseFrequency"}
DltsGetters == {"getX"}

DltsSetCommand(name, value) ==
    CASE name = "setX" -> SetXPosition(value)
      [] name = "setLaserPulseIntensity" -> SetLaserPulseIntensity(value)
      [] name = "setLaserPulseFrequency" -> SetLaserPulseFrequency(value)

DltsGetCommand(name) ==
    CASE name = "getX" -> GetXPosition

\* self._DltsConnection.commandSet(DltsCommand.Set...(value))
DltsSet(name, value, buf, c, reply) ==
    DltsConnection(buf, c,
        IF UInt16Overflow(value)
        THEN Outcome("DltsException", None, buf, <<>>, c)
        ELSE commandSet(buf \o reply, c, DltsSetCommand(name, value)))

\* return self._DltsConnection.commandGetUInt16(DltsCommand.Get...())
DltsGet(name, buf, c, reply) ==
    DltsConnection(buf, c, commandGetUInt16(buf \o reply, c, DltsGetCommand(name)))

\* self._DltsConnection.commandWithAcknowledge(DltsCommand.ActionLaserPulse())
DltsActionLaserPulse(buf, c, reply) ==
    DltsConnection(buf, c,
        Let(commandWithAcknowledgeBody(buf \o reply, AcquireForTemporaryUsage(c),
                                       ActionLaserPulse),
            LAMBDA o : [o EXCEPT !.cnt = ReleaseFromTemporaryUsage(o.cnt)]))

\* what a call of fireLaserPulse hands to setLaserPulseIntensity
PulseIntensity(intensity) == 2000

\* fireLaserPulse(intensity, frequency), the device answering reply1 to the
\* first command and reply2 to the second
fireLaserPulse(intensity, frequency, buf, c, reply1, reply2) ==
    IF intensity # None
    THEN Let(DltsSet("setLaserPulseIntensity", PulseIntensity(intensity[1]), buf, c, reply1),
             LAMBDA s :
                 IF s.kind # "ok" THEN s
                 ELSE Let(DltsActionLaserPulse(s.rest, s.cnt, reply2), LAMBDA a :
                          [a EXCEPT !.sent = s.sent \o a.sent]))
    ELSE DltsActionLaserPulse(buf, c, reply1)

\* the values a caller passes to a setter
DltsValues == {1000, 65536}

\* the optional arguments of fireLaserPulse
PulseArguments == {None, <<1000>>}

Result(op, args, o) ==
    [op |-> op, args |-> args, raised |-> IF o.kind = "ok" THEN "none" ELSE o.kind,
     sent |-> o.sent]

\* the facade call has run; its caller has the result next
DltsCalled(t, op, args, o) ==
    /\ rx' = o.rest
    /\ tx' = tx \o o.sent
    /\ comLockCount' = o.cnt
    /\ dltsOut' = Result(op, args, o)
    /\ pc' = [pc EXCEPT ![t] = "dlts_called"]
    /\ UNCHANGED <<comLockOwner, acquired, call, out, byMe, holds, scanVars>>

DltsSetter(t) ==
    /\ pc[t] = "idle"
    /\ Len(tx) < MaxTx
    /\ \E name \in DltsSetters, value \in DltsValues, reply \in SetReplies :
       \E o \in {DltsSet(name, value, rx, comLockCount, reply)} :
          DltsCalled(t, name, <<value>>, o)
    /\ UNCHANGED <<dltsConnectionIsOpen, dltsScan, scanHistory, scanHistorySize, threadOf,
                   finishedOf>>

DltsGetter(t) ==
    /\ pc[t] = "idle"
    /\ Len(tx) < MaxTx
    /\ \E name \in DltsGetters, reply \in GetReplies :
       \E o \in {DltsGet(name, rx, comLockCount, reply)} :
          DltsCalled(t, name, <<>>, o)
    /\ UNCHANGED <<dltsConnectionIsOpen, dltsScan, scanHistory, scanHistorySize, threadOf,
                   finishedOf>>

FireLaserPulse(t) ==
    /\ pc[t] = "idle"
    /\ Len(tx) < MaxTx
    /\ \E intensity \in PulseArguments, frequency \in PulseArguments :
       \E reply1 \in SetReplies, reply2 \in SetReplies :
       \E o \in {fireLaserPulse(intensity, frequency, rx, comLockCount, reply1, reply2)} :
          DltsCalled(t, "fireLaserPulse", <<intensity, frequency>>, o)
    /\ UNCHANGED <<dltsConnectionIsOpen, dltsScan, scanHistory, scanHistorySize, threadOf,
                   finishedOf>>

AppendLeft_Unbounded(history, maxlen, scan) == <<scan>> \o history

\* deque.appendleft on a deque with a maxlen: a full deque drops its last item
AppendLeft(history, maxlen, scan) ==
    IF maxlen = 0 THEN history
    ELSE IF Len(history) = maxlen THEN <<scan>> \o Take(history, maxlen - 1)
    ELSE <<scan>> \o history

\* startScan(scan)
StartScan(t) ==
    /\ pc[t] = "idle"
    /\ \E scan \in Scans :
       IF IsScanRunning
       THEN /\ dltsOut' = [NoResult EXCEPT !.op = "startScan", !.args = <<scan>>,
                                           !.raised = "DltsControlFlowError"]
            /\ UNCHANGED <<dltsScan, scanHistory, threadOf>>
       ELSE /\ scanHistory' = IF dltsScan # NoScan
                              THEN AppendLeft(scanHistory, scanHistorySize, dltsScan)
                              ELSE scanHistory
            /\ dltsScan' = scan
            \* self._scan.start(self._DltsConnection): the new scan is not running
            /\ IF DltsConnectionGuard(IsConnected, scanIsRunning(scan)) # "none"
               THEN /\ dltsOut' = [NoResult EXCEPT !.op = "startScan", !.args = <<scan>>,
                          !.raised = DltsConnectionGuard(IsConnected, scanIsRunning(scan))]
                    /\ UNCHANGED threadOf
               ELSE IF ~StartGuard(scanIsRunning(scan), scanIsFinished(scan))
               THEN /\ dltsOut' = [NoResult EXCEPT !.op = "startScan", !.args = <<scan>>]
                    /\ UNCHANGED threadOf
               ELSE IF threadOf[scan] = "initial"
               THEN /\ dltsOut' = [NoResult EXCEPT !.op = "startScan", !.args = <<scan>>]
                    /\ threadOf' = [threadOf EXCEPT ![scan] = "alive"]
               ELSE /\ dltsOut' = [NoResult EXCEPT !.op = "startScan", !.args = <<scan>>,
                                                   !.raised = "RuntimeError"]
                    /\ UNCHANGED threadOf
    /\ pc' = [pc EXCEPT ![t] = "dlts_called"]
    /\ UNCHANGED <<comLockOwner, comLockCount, acquired, rx, tx, call, out, byMe, holds,
                   scanVars, dltsConnectionIsOpen, scanHistorySize, finishedOf>>

\* the caller carries on
DltsReturn(t) ==
    /\ pc[t] = "dlts_called"
    /\ pc' = [pc EXCEPT ![t] = "idle"]
    /\ dltsOut' = NoResult
    /\ UNCHANGED <<comLockOwner, comLockCount, acquired, rx, tx, call, out, byMe, holds,
                   scanVars, dltsConnectionIsOpen, dltsScan, scanHistory, scanHistorySize,
                   threadOf, finishedOf>>

\* DltsConnection.close(): the byte stream is closed
Close(t) ==
    /\ pc[t] = "idle"
    /\ dltsConnectionIsOpen
    /\ dltsConnectionIsOpen' = FALSE
    /\ UNCHANGED <<connVars, scanVars, dltsScan, scanHistory, scanHistorySize, threadOf,
                   finishedOf, dltsOut>>

\* the scan thread of a scan reaches "self._scanFinished = True"
ScanThreadFinish(s) ==
    /\ threadOf[s] = "alive" /\ ~finishedOf[s]
    /\ finishedOf' = [finishedOf EXCEPT ![s] = TRUE]
    /\ UNCHANGED <<connVars, scanVars, dltsConnectionIsOpen, dltsScan, scanHistory,
                   scanHistorySize, threadOf, dltsOut>>

\* and returns from _scanThreadTarget
ScanThreadReturn(s) ==
    /\ threadOf[s] = "alive" /\ finishedOf[s]
    /\ threadOf' = [threadOf EXCEPT ![s] = "stopped"]
    /\ UNCHANGED <<connVars, scanVars, dltsConnectionIsOpen, dltsScan, scanHistory,
                   scanHistorySize, finishedOf, dltsOut>>

\* the history sizes a facade is constructed with
HistorySizes == 0 .. MaxHistory

InitFacade ==
    /\ comLockOwner = NoThread
    /\ comLockCount = 0
    /\ acquired = FALSE
    /\ rx = <<>>
    /\ tx = <<>>
    /\ pc = [t \in Callers |-> "idle"]
    /\ call = [t \in Callers |-> NoCall]
    /\ out = [t \in Callers |-> NoReturn]
    /\ byMe = [t \in Callers |-> FALSE]
    /\ holds = [t \in Callers |-> 0]
    /\ InitScan(PointConfig, None)
    /\ \E size \in HistorySizes : InitDlts(size)
    /\ InitCombo(TRUE)
    /\ InitCall

NextDlts ==
    \/ DltsSetter(Gui) /\ UNCHANGED <<callVars, comboVars>>
    \/ DltsGetter(Gui) /\ UNCHANGED <<callVars, comboVars>>
    \/ FireLaserPulse(Gui) /\ UNCHANGED <<callVars, comboVars>>
    \/ StartScan(Gui) /\ UNCHANGED <<callVars, comboVars>>
    \/ DltsReturn(Gui) /\ UNCHANGED <<callVars, comboVars>>
    \/ Close(Gui) /\ UNCHANGED <<callVars, comboVars>>
    \/ \E s \in Scans : ScanThreadFinish(s) /\ UNCHANGED <<callVars, comboVars>>
    \/ \E s \in Scans : ScanThreadReturn(s) /\ UNCHANGED <<callVars, comboVars>>

SpecDlts == InitFacade /\ [][NextDlts]_vars

(***************************************************************************)
(* Properties of the facade                                                *)
(***************************************************************************)
\* the step in which a facade call of the thread t runs
DltsCallStep(t) == pc[t] = "idle" /\ pc'[t] = "dlts_called"

\* the facade's current scan has a live scan thread
CurrentScanAlive == dltsScan # NoScan /\ threadOf[dltsScan] = "alive"

FacadeCommands == DltsSetters \cup DltsGetters \cup {"fireLaserPulse"}

\* C12: a startScan call made while the current scan is running raises
\* DltsControlFlowError and leaves the current scan, the history and every
\* scan thread as they were; at no time are two scans running.
C12_StartScanWhileRunning ==
    /\ [](Cardinality({s \in Scans : threadOf[s] = "alive"}) <= 1)
    /\ [][(DltsCallStep(Gui) /\ dltsOut'.op = "startScan" /\ CurrentScanAlive)
            => /\ dltsOut'.raised = "DltsControlFlowError"
               /\ UNCHANGED <<dltsScan, scanHistory, threadOf, finishedOf>>]_vars

\* a startScan of another scan has been rejected while the current one runs
C12_Witness ==
    /\ pc[Gui] = "dlts_called"
    /\ dltsOut.op = "startScan"
    /\ dltsOut.raised = "DltsControlFlowError"
    /\ dltsConnectionIsOpen
    /\ CurrentScanAlive
    /\ dltsOut.args[1] # dltsScan

\* C13: a getter, a setter or fireLaserPulse called while the current scan is
\* running or the connection is closed raises DltsControlFlowError and
\* writes nothing to the transport.
C13_CommandsGuarded ==
    [][(DltsCallStep(Gui) /\ dltsOut'.op \in FacadeCommands
            /\ (CurrentScanAlive \/ ~dltsConnectionIsOpen))
        => /\ dltsOut'.raised = "DltsControlFlowError"
           /\ tx' = tx]_vars

\* a command has been rejected while a scan runs on an open connection
C13_Witness ==
    /\ pc[Gui] = "dlts_called"
    /\ dltsOut.op \in FacadeCommands
    /\ dltsOut.raised = "DltsControlFlowError"
    /\ dltsConnectionIsOpen
    /\ CurrentScanAlive

\* C14: the history never holds more scans than its size; a startScan that
\* replaces a current scan puts it in front of the history and keeps the
\* first scanHistorySize entries, and nothing else changes the history.
C14_HistoryBounded ==
    /\ [](Len(scanHistory) <= scanHistorySize)
    /\ [][IF DltsCallStep(Gui) /\ dltsOut'.op = "startScan" /\ ~CurrentScanAlive
                /\ dltsScan # NoScan
          THEN scanHistory' = Take(<<dltsScan>> \o scanHistory, scanHistorySize)
          ELSE scanHistory' = scanHistory]_vars

\* a history of size one holds s2 after s1, s2 and s3 were started in turn:
\* s1 has been dropped
C14_Witness ==
    /\ scanHistorySize = 1
    /\ scanHistory = <<"s2">>
    /\ dltsScan = "s3"
    /\ threadOf["s1"] = "stopped"

\* C20: a fireLaserPulse that has returned has written the set command of
\* the pulse intensity with the intensity it was given, the set command of
\* the pulse frequency with the frequency it was given, each only when the
\* argument was given, and after them the laser pulse action.
C20_PulseArgumentsSent ==
    (pc[Gui] = "dlts_called" /\ dltsOut.op = "fireLaserPulse" /\ dltsOut.raised = "none")
        => dltsOut.sent =
               (IF dltsOut.args[1] # None
                THEN <<SetLaserPulseIntensity(dltsOut.args[1][1])>> ELSE <<>>)
               \o (IF dltsOut.args[2] # None
                   THEN <<SetLaserPulseFrequency(dltsOut.args[2][1])>> ELSE <<>>)
               \o <<ActionLaserPulse>>

(***************************************************************************)
(* Properties of the progress of a scan                                    *)
(***************************************************************************)
\* C15: for a scan with a positive capacity the data points only grow at
\* their end, getProgressPercentage() never decreases, and it is exactly 1.0
\* whenever isCompleted().
C15_ProgressMonotone ==
    /\ [][getScanPointsCount > 0
            => /\ Len(dataPoints') >= Len(dataPoints)
               /\ Take(dataPoints', Len(dataPoints)) = dataPoints
               /\ getProgressPercentage'.raised = "none"
               /\ QuotientLeq(getProgressPercentage, getProgressPercentage')]_vars
    /\ []((getScanPointsCount > 0 /\ isCompleted)
            => /\ getProgressPercentage.raised = "none"
               /\ getProgressPercentage.num = getProgressPercentage.den)

\* a scan over two points is completed
C15_Witness ==
    /\ getScanPointsCount = 2
    /\ isCompleted
    /\ getProgressPercentage = [raised |-> "none", num |-> 2, den |-> 2]

\* C16: for a scan with capacity 0 getProgressPercentage() returns 0.0 and
\* raises nothing.
C16_ZeroCapacityProgress ==
    getScanPointsCount = 0
        => /\ getProgressPercentage.raised = "none"
           /\ getProgressPercentage.num = 0

(***************************************************************************)
(* ScanAreaConfig.ScanResolution and ScanPositionsCount, called on area    *)
(* configurations with bounds in 0 .. MaxCoord and steps in 1 .. MaxStep   *)
(***************************************************************************)
AreaConfigs ==
    { ScanAreaConfig(xLow, xHigh, yLow, yHigh, xStep, yStep) :
        xLow \in 0 .. MaxCoord, xHigh \in 0 .. MaxCoord,
        yLow \in 0 .. MaxCoord, yHigh \in 0 .. MaxCoord,
        xStep \in 1 .. MaxStep, yStep \in 1 .. MaxStep }

\* the state of the connection, the scan and the facade while a function
\* without side effects is called
InitIdle ==
    /\ comLockOwner = NoThread
    /\ comLockCount = 0
    /\ acquired = FALSE
    /\ rx = <<>>
    /\ tx = <<>>
    /\ pc = [t \in Callers |-> "idle"]
    /\ call = [t \in Callers |-> NoCall]
    /\ out = [t \in Callers |-> NoReturn]
    /\ byMe = [t \in Callers |-> FALSE]
    /\ holds = [t \in Callers |-> 0]
    /\ InitScan(PointConfig, None)
    /\ InitDlts(1)
    /\ InitCombo(TRUE)

InitArea ==
    /\ InitIdle
    /\ arg \in AreaConfigs
    /\ ret = NoRet

\* the caller reads ScanResolution and ScanPositionsCount of the configuration
GetScanResolution ==
    /\ ret = NoRet
    /\ ret' = [raised |-> "none", ScanResolution |-> ScanResolution(arg),
               ScanPositionsCount |-> ScanPositionsCount(arg)]
    /\ UNCHANGED <<connVars, scanVars, dltsVars, comboVars, arg>>

NextArea == GetScanResolution

SpecArea == InitArea /\ [][NextArea]_vars

\* C17: for steps of at least 1 and bounds with high >= low the resolution
\* in each axis is the number n of positions low, low + step, ... that do
\* not pass high (low + (n - 1) * step <= high < low + n * step, the floor
\* and not the ceiling of the quotient, plus one), and ScanPositionsCount is
\* the product of the two.
C17_ResolutionFloor ==
    (ret # NoRet /\ arg.XStepSize >= 1 /\ arg.YStepSize >= 1
        /\ arg.XBoundsHigh >= arg.XBoundsLow /\ arg.YBoundsHigh >= arg.YBoundsLow)
    => /\ arg.XBoundsLow + (ret.ScanResolution[1] - 1) * arg.XStepSize <= arg.XBoundsHigh
       /\ arg.XBoundsHigh < arg.XBoundsLow + ret.ScanResolution[1] * arg.XStepSize
       /\ arg.YBoundsLow + (ret.ScanResolution[2] - 1) * arg.YStepSize <= arg.YBoundsHigh
       /\ arg.YBoundsHigh < arg.YBoundsLow + ret.ScanResolution[2] * arg.YStepSize
       /\ ret.ScanPositionsCount = ret.ScanResolution[1] * ret.ScanResolution[2]

\* the resolution of an area whose x range is not a multiple of the step:
\* floor(3 / 2) + 1 = 2 positions in x, 3 in y
C17_Witness ==
    /\ arg = ScanAreaConfig(0, 3, 0, 2, 2, 1)
    /\ ret # NoRet
    /\ ret.ScanResolution = <<2, 3>>
    /\ ret.ScanPositionsCount = 6

(***************************************************************************)
(* ScanImage: the image a ReflectionScan creates from its data points.  A  *)
(* data point is the raw byte it was received as.                          *)
(***************************************************************************)
\* ScanImage._IMAGE_ARRAY_DEFAULT_VALUE
IMAGE_ARRAY_DEFAULT_VALUE == 0

\* ReflectionImage.convertDataPoint: ReflectionScanDataPoint.getLaserReflection
convertDataPoint(point) == FromBytesBig(point)

reversedResolution_Same(resolution) == resolution

\* "tuple(reversed(self.getResolution()))"
reversedResolution(resolution) == <<resolution[2], resolution[1]>>

\* IScanImage.getDataPointsCapacity
getDataPointsCapacity(resolution) == resolution[1] * resolution[2]

\* np.full(shape, default) seen through its flat view, the first
\* len(dataPoints) cells assigned the converted points
ImageView(points, resolution) ==
    [i \in 1 .. getDataPointsCapacity(resolution) |->
        IF i <= Len(points) THEN convertDataPoint(points[i]) ELSE IMAGE_ARRAY_DEFAULT_VALUE]

\* the array of the given shape over a flat view
Reshape(view, shape) ==
    [r \in 1 .. shape[1] |-> [c \in 1 .. shape[2] |-> view[(r - 1) * shape[2] + c]]]

\* ScanImage._createImageArray; more points than cells do not fit the slice
createImageArray(points, resolution) ==
    IF Len(points) > getDataPointsCapacity(resolution)
    THEN [raised |-> "ValueError", array |-> <<>>]
    ELSE [raised |-> "none",
          array |-> Reshape(ImageView(points, resolution), reversedResolution(resolution))]

\* ScanImage.__init__ and IScanImage.getCompletion
ScanImage(points, resolution) ==
    Let(createImageArray(points, resolution), LAMBDA a :
        [raised |-> a.raised, dataPointsCount |-> Len(points), resolution |-> resolution,
         imageArray |-> a.array,
         completion |-> TrueDivide(Len(points), getDataPointsCapacity(resolution))])

\* the scans whose images are created: x bounds (0, 2 * (rx - 1)) in steps of
\* 2 and y bounds (0, ry - 1) in steps of 1, for resolutions up to MaxImageSide
ImageConfigs ==
    { ScanAreaConfig(0, 2 * (nx - 1), 0, ny - 1, 2, 1) :
        nx \in 1 .. MaxImageSide, ny \in 1 .. MaxImageSide }

InitImage ==
    /\ InitIdle
    /\ \E cfg \in ImageConfigs : arg = [configuration |-> cfg, dataPoints |-> <<>>]
    /\ ret = NoRet

\* the raw bytes a data point may be: its index, or 255
PointBytes(index) == {index % 256, 255}

\* the scan receives a data point while it has fewer than ScanPositionsCount
ReceiveDataPoint ==
    /\ ret = NoRet
    /\ Len(arg.dataPoints) < ScanPositionsCount(arg.configuration)
    /\ \E b \in PointBytes(Len(arg.dataPoints)) :
        arg' = [arg EXCEPT !.dataPoints = Append(@, <<b>>)]
    /\ UNCHANGED <<connVars, scanVars, dltsVars, comboVars, ret>>

\* ReflectionScan.createScanImages(dataPoints)
createScanImages ==
    /\ ret = NoRet
    /\ ret' = ScanImage(arg.dataPoints, ScanResolution(arg.configuration))
    /\ UNCHANGED <<connVars, scanVars, dltsVars, comboVars, arg>>

NextImage ==
    \/ ReceiveDataPoint
    \/ createScanImages

SpecImage == InitImage /\ [][NextImage]_vars

\* C18: the image created from the n data points of a scan with resolution
\* (rx, ry), n <= rx * ry, has ry rows of rx columns; its element in row r and
\* column c (from 0) is the value of point r * rx + c when that is below n and 0
\* otherwise; its completion is n / (rx * ry).
C18_ImageRowMajor ==
    ret # NoRet =>
        LET nx == ScanPositionsCountInX(arg.configuration)
            ny == ScanPositionsCountInY(arg.configuration)
            n == Len(arg.dataPoints)
        IN  /\ ret.raised = "none"
            /\ Len(ret.imageArray) = ny
            /\ \A r \in 0 .. ny - 1 :
                /\ Len(ret.imageArray[r + 1]) = nx
                /\ \A c \in 0 .. nx - 1 :
                    ret.imageArray[r + 1][c + 1] =
                        IF r * nx + c < n THEN arg.dataPoints[r * nx + c + 1][1] ELSE 0
            /\ ret.completion = [raised |-> "none", num |-> n, den |-> nx * ny]

\* the image of the nine points 0 .. 8 of the scan with x bounds (0, 4),
\* y bounds (0, 2) and steps (2, 1)
C18_Witness ==
    /\ ret # NoRet
    /\ arg.configuration = ScanAreaConfig(0, 4, 0, 2, 2, 1)
    /\ arg.dataPoints = <<<<0>>, <<1>>, <<2>>, <<3>>, <<4>>, <<5>>, <<6>>, <<7>>, <<8>>>>
    /\ ret.imageArray = <<<<0, 1, 2>>, <<3, 4, 5>>, <<6, 7, 8>>>>
    /\ ret.completion = [raised |-> "none", num |-> 9, den |-> 9]

(***************************************************************************)
(* DltsCommand.SetUInt16: the set commands, for values in 0 .. MaxValue    *)
(***************************************************************************)
\* the subjects of the set commands called: "px" and "li"
SetSubjects == {<<112, 120>>, <<108, 105>>}

\* DltsCommand.SetUInt16(setSubject, value): the command, or the
\* DltsException that _encodeToUInt16 makes of the OverflowError
SetUInt16Call(setSubject, value) ==
    IF UInt16Overflow(value)
    THEN [raised |-> "DltsException", command |-> <<>>]
    ELSE [raised |-> "none", command |-> SetUInt16(setSubject, value)]

InitCommand ==
    /\ InitIdle
    /\ \E s \in SetSubjects, v \in 0 .. MaxValue : arg = [setSubject |-> s, value |-> v]
    /\ ret = NoRet

\* the set command is built; a device that holds the value answers a get
\* command with "dat" and the two bytes of the set command, which
\* commandGetUInt16 decodes
BuildSetCommand ==
    /\ ret = NoRet
    /\ \E s \in {SetUInt16Call(arg.setSubject, arg.value)} :
        ret' = [raised |-> s.raised, command |-> s.command,
                decoded |-> IF s.raised # "none" THEN NoReturn
                            ELSE Returned(commandGetUInt16(
                                     DLTS_RESPONSE_DATA \o Drop(s.command, 3), 0, GetXPosition))]
    /\ UNCHANGED <<connVars, scanVars, dltsVars, comboVars, arg>>

NextCommand == BuildSetCommand

SpecCommand == InitCommand /\ [][NextCommand]_vars

\* C19: the set command of a value in 0 .. 65535 is "s" and the two ASCII
\* bytes of its subject followed by the two bytes of the value, high byte
\* first, and commandGetUInt16 reads the value back from them; for a value
\* above 65535 the call raises DltsException.
C19_SetCommandRoundTrip ==
    ret # NoRet =>
        IF arg.value <= 65535
        THEN /\ ret.raised = "none"
             /\ Len(ret.command) = 5
             /\ Take(ret.command, 3) = <<115>> \o arg.setSubject
             /\ IsAscii(Take(ret.command, 3))
             /\ ret.command[4] \in 0 .. 255 /\ ret.command[5] \in 0 .. 255
             /\ ret.command[4] * 256 + ret.command[5] = arg.value
             /\ ret.decoded.kind = "ok"
             /\ ret.decoded.data = <<arg.value>>
        ELSE ret.raised = "DltsException"

\* the largest value that fits has been encoded and read back
C19_Witness ==
    /\ ret # NoRet
    /\ arg.value = 65535
    /\ ret.command = <<115>> \o arg.setSubject \o <<255, 255>>
    /\ ret.decoded.data = <<65535>>

(***************************************************************************)
(* Properties of what a protocol call consumes                             *)
(***************************************************************************)
\* the positions in s at which an occurrence of pattern ends
OccurrenceEnds(s, pattern) ==
    { k \in Len(pattern) .. Len(s) : SubSeq(s, k - Len(pattern) + 1, k) = pattern }

\* where the first occurrence of pattern in s ends, 0 if there is none
FirstOccurrenceEnd(s, pattern) ==
    IF OccurrenceEnds(s, pattern) = {} THEN 0
    ELSE CHOOSE k \in OccurrenceEnds(s, pattern) : \A j \in OccurrenceEnds(s, pattern) : k <= j

\* C25: a command() that read a response header other than the expected one
\* has consumed the response when it ends: after an `err` header the error
\* line up to and including its CR LF (when the transport holds one), after
\* any other header everything the transport held.
C25_MismatchConsumed ==
    [][\A t \in Callers :
        (/\ pc[t] = "body" /\ pc'[t] = "end"
         /\ call[t].op = "command"
         /\ Len(rx) >= DLTS_RESPONSE_HEADER_LENGTH
         /\ IsAscii(Take(rx, DLTS_RESPONSE_HEADER_LENGTH))
         /\ Take(rx, DLTS_RESPONSE_HEADER_LENGTH) # call[t].expected)
        => LET line == Drop(rx, DLTS_RESPONSE_HEADER_LENGTH)
           IN  IF Take(rx, DLTS_RESPONSE_HEADER_LENGTH) = DLTS_RESPONSE_ERROR
               THEN FirstOccurrenceEnd(line, <<13, 10>>) # 0
                        => rx' = Drop(line, FirstOccurrenceEnd(line, <<13, 10>>))
               ELSE rx' = <<>>]_vars

\* C26: commandSkipUntilResponse writes the command and then consumes the
\* incoming bytes up to and including the first occurrence of the expected
\* header and no byte beyond it, whatever precedes the header; when the
\* transport has no occurrence of the header to deliver, the call raises
\* DltsTimeoutError.
C26_SkipUntilHeader ==
    [][\A t \in Callers :
        (/\ pc[t] = "body" /\ pc'[t] = "end"
         /\ call[t].op = "commandSkipUntilResponse")
        => /\ tx' = Append(tx, call[t].cmd)
           /\ IF FirstOccurrenceEnd(rx, call[t].expected) # 0
              THEN /\ out'[t].kind = "ok"
                   /\ rx' = Drop(rx, FirstOccurrenceEnd(rx, call[t].expected))
              ELSE /\ out'[t].kind = "DltsTimeoutError"
                   /\ rx' = <<>>]_vars

\* a commandSkipUntilResponse has returned and left the bytes behind the header
C26_Witness ==
    \E t \in Callers :
        /\ pc[t] = "end"
        /\ call[t].op = "commandSkipUntilResponse"
        /\ out[t].kind = "ok"
        /\ tx # <<>> /\ tx[Len(tx)] = call[t].cmd
        /\ rx # <<>>

(***************************************************************************)
(* readUntil as a function of the terminator, the size cap and the bytes   *)
(* the transport will deliver                                              *)
(***************************************************************************)
\* the bytes of the streams: CR, LF and "A"
StreamBytes == {13, 10, 65}

\* the byte sequences of at most n bytes
RECURSIVE StreamsUpTo(_)
StreamsUpTo(n) ==
    IF n = 0 THEN {<<>>}
    ELSE StreamsUpTo(n - 1)
         \cup { Append(s, b) : s \in { q \in StreamsUpTo(n - 1) : Len(q) = n - 1 }, b \in StreamBytes }

Terminators == {<<>>, <<10>>, <<13, 10>>, <<65>>}

\* size = None or a cap
SizeCaps == {NoSize} \cup 0 .. MaxCap

InitReadUntil ==
    /\ InitIdle
    /\ \E term \in Terminators, size \in SizeCaps, buf \in StreamsUpTo(MaxStream) :
        arg = [terminator |-> term, size |-> size, buf |-> buf]
    /\ ret = NoRet

\* readUntil(terminator, size) by a thread that holds no lock, on a transport
\* that delivers arg.buf and then nothing
CallReadUntil ==
    /\ ret = NoRet
    /\ \E o \in {readUntil(arg.buf, 0, Bytes(arg.terminator), arg.size)} :
        ret' = [raised |-> IF o.kind = "ok" THEN "none" ELSE o.kind,
                data |-> o.data, rest |-> o.rest, cnt |-> o.cnt]
    /\ UNCHANGED <<connVars, scanVars, dltsVars, comboVars, arg>>

NextReadUntil == CallReadUntil

SpecReadUntil == InitReadUntil /\ [][NextReadUntil]_vars

LoopStopped == scanImagesCreationThread # "initial" /\ ~scanningForDataPoints

\* the scan thread reads a data point or appends it
ReadOrAppend ==
    \/ spc = "receive" /\ spc' # "receive"
    \/ dataPoints' # dataPoints

\* C29: with a capacity of at least one the scan never holds more data
\* points than its capacity; a data point is read or appended only while the
\* loop's flag is up and the count is below the capacity; and once the loop
\* has seen the abort request or the full count, its flag stays down and no
\* data point is read or appended any more.
C29_PointsWithinCapacity ==
    /\ [](getScanPointsCount >= 1 => Len(dataPoints) <= getScanPointsCount)
    /\ [][getScanPointsCount >= 1 =>
            /\ ReadOrAppend => scanningForDataPoints /\ Len(dataPoints) < getScanPointsCount
            /\ (spc = "stop" /\ abortRequested /\ spc' # "stop") => LoopStopped'
            /\ (spc = "recounted" /\ length >= getScanPointsCount /\ spc' # "recounted")
                   => LoopStopped'
            /\ LoopStopped => LoopStopped' /\ ~ReadOrAppend]_vars

\* a scan of two positions has run to its end with exactly two data points
C29_Witness ==
    /\ getScanPointsCount = 2
    /\ Len(dataPoints) = 2
    /\ LoopStopped
    /\ ~abortRequested
    /\ scanThread = "stopped"

\* onScanAbort has run: its stop command has been written
OnScanAbortInvoked == \E i \in 1 .. Len(tx) : tx[i] = ActionScanStop

\* C22: whenever the acquisition loop stops because its stop test read the
\* abort request, onScanAbort has been invoked in that pass of the loop, in
\* every interleaving of abort() with the scan thread.
C22_AbortInvokesOnScanAbort ==
    [][(spc = "stop" /\ abortRequested /\ spc' = "loop") => OnScanAbortInvoked]_vars

\* C23: once a scan whose acquisition loop was entered reports isFinished()
\* and createScanImages did not fail, the published images were built from a
\* snapshot taken after _scanningForDataPoints became false: from the
\* complete point sequence.
C23_FinalImagesComplete ==
    (isFinished /\ scanImagesCreationThread # "initial" /\ ipc # "failed")
        => /\ scanImagesCreationThread = "stopped"
           /\ scanImages.built
           /\ scanImages.points = dataPoints
           /\ Len(scanImages.points) = getScannedPointsCount

\* a finished scan of two positions whose images hold both data points
C23_Witness ==
    /\ isFinished
    /\ ipc = "done"
    /\ scanImages.built
    /\ Len(dataPoints) = 2
    /\ scanImages.points = dataPoints

(***************************************************************************)
(* A scan whose data points, point count and images are read by the        *)
(* thread that started it, while the scan runs                             *)
(***************************************************************************)
\* getDataPoints(): "with self._dataPointsLock: dataCopy = tuple(self._dataPoints)"
GetDataPoints(t) ==
    /\ pc[t] = "idle"
    /\ dataPointsLock = NoThread
    /\ dataPointsLock' = t
    /\ ret' = [raised |-> "none", value |-> dataPoints]
    /\ pc' = [pc EXCEPT ![t] = "getDataPoints"]
    /\ UNCHANGED <<comLockOwner, comLockCount, acquired, rx, tx, call, out, byMe, holds,
                   configuration, xTilt, zPosition, laserIntensity, scanImages, dataPoints,
                   startTime, finishTime, scanFinished, abortRequested, scanningForDataPoints,
                   scanImagesLock, scanThread, scanImagesCreationThread, scanLocals,
                   dltsVars, comboVars, arg>>

\* getScannedPointsCount(): "with self._dataPointsLock: length = len(self._dataPoints)"
GetScannedPointsCount(t) ==
    /\ pc[t] = "idle"
    /\ dataPointsLock = NoThread
    /\ dataPointsLock' = t
    /\ ret' = [raised |-> "none", value |-> Len(dataPoints)]
    /\ pc' = [pc EXCEPT ![t] = "getScannedPointsCount"]
    /\ UNCHANGED <<comLockOwner, comLockCount, acquired, rx, tx, call, out, byMe, holds,
                   configuration, xTilt, zPosition, laserIntensity, scanImages, dataPoints,
                   startTime, finishTime, scanFinished, abortRequested, scanningForDataPoints,
                   scanImagesLock, scanThread, scanImagesCreationThread, scanLocals,
                   dltsVars, comboVars, arg>>

\* either method leaves its with block and returns
DataPointsReturn(t) ==
    /\ pc[t] \in {"getDataPoints", "getScannedPointsCount"}
    /\ dataPointsLock' = WithExit(dataPointsLock)
    /\ ret' = NoRet
    /\ pc' = [pc EXCEPT ![t] = "idle"]
    /\ UNCHANGED <<comLockOwner, comLockCount, acquired, rx, tx, call, out, byMe, holds,
                   configuration, xTilt, zPosition, laserIntensity, scanImages, dataPoints,
                   startTime, finishTime, scanFinished, abortRequested, scanningForDataPoints,
                   scanImagesLock, scanThread, scanImagesCreationThread, scanLocals,
                   dltsVars, comboVars, arg>>

\* getScanImages(): "with self._scanImagesLock: scanImages = tuple(self._scanImages)"
GetScanImages(t) ==
    /\ pc[t] = "idle"
    /\ scanImagesLock = NoThread
    /\ scanImagesLock' = t
    /\ ret' = [raised |-> "none", value |-> scanImages]
    /\ pc' = [pc EXCEPT ![t] = "getScanImages"]
    /\ UNCHANGED <<comLockOwner, comLockCount, acquired, rx, tx, call, out, byMe, holds,
                   configuration, xTilt, zPosition, laserIntensity, scanImages, dataPoints,
                   startTime, finishTime, scanFinished, abortRequested, scanningForDataPoints,
                   dataPointsLock, scanThread, scanImagesCreationThread, scanLocals,
                   dltsVars, comboVars, arg>>

ScanImagesReturn(t) ==
    /\ pc[t] = "getScanImages"
    /\ scanImagesLock' = WithExit(scanImagesLock)
    /\ ret' = NoRet
    /\ pc' = [pc EXCEPT ![t] = "idle"]
    /\ UNCHANGED <<comLockOwner, comLockCount, acquired, rx, tx, call, out, byMe, holds,
                   configuration, xTilt, zPosition, laserIntensity, scanImages, dataPoints,
                   startTime, finishTime, scanFinished, abortRequested, scanningForDataPoints,
                   dataPointsLock, scanThread, scanImagesCreationThread, scanLocals,
                   dltsVars, comboVars, arg>>

NextLocks ==
    \/ NextScan
    \/ GetDataPoints(Gui)
    \/ GetScannedPointsCount(Gui)
    \/ DataPointsReturn(Gui)
    \/ GetScanImages(Gui)
    \/ ScanImagesReturn(Gui)

SpecLocks == InitScanning /\ [][NextLocks]_vars

\* the threads that take the locks of a scan
LockUsers == {ScanThread, ImagesThread, Gui}

\* C27: no thread ever holds the points lock and the images lock of a scan at
\* the same time: the acquisition path, the image-assembly path and the
\* callers of getDataPoints, getScannedPointsCount and getScanImages hold at
\* most one of the two.
C27_OneLockAtATime ==
    /\ dataPointsLock \in LockUsers \cup {NoThread}
    /\ scanImagesLock \in LockUsers \cup {NoThread}
    /\ \A t \in LockUsers : ~(dataPointsLock = t /\ scanImagesLock = t)

\* both locks are held, by two threads: the images thread snapshots the
\* points while a caller reads the images
C27_Witness ==
    /\ dataPointsLock = ImagesThread
    /\ scanImagesLock = Gui
    /\ pc[Gui] = "getScanImages"
    /\ ipc = "gotDataPoints"

(***************************************************************************)
(* A scan that runs while another thread makes protocol calls on the       *)
(* connection the scan was started with                                    *)
(***************************************************************************)
\* the thread that calls the connection
Other == "t2"

NextSession ==
    \/ NextScan
    \/ (CallBegin(Other) /\ UNCHANGED <<scanVars, otherVars>>)
    \/ (CallBody(Other) /\ UNCHANGED <<scanVars, otherVars>>)
    \/ (CallEnd(Other) /\ UNCHANGED <<scanVars, otherVars>>)
    \/ (CallRaised(Other) /\ UNCHANGED <<scanVars, otherVars>>)

\* a scan of one position on an idle connection
InitSession ==
    /\ InitIdle
    /\ InitCall

SpecSession == InitSession /\ [][NextSession]_vars

\* the scan thread is between __enter__ and __exit__ of "with self._dltsConnection"
InSession ==
    /\ scanThread = "alive"
    /\ spc \notin {"enter", "join", "finish", "return", "done"}

\* C24: from before its first device command until after its restore
\* commands the scan thread holds the connection without interruption: it
\* owns the lock, no protocol call of another thread is under way, every
\* protocol call another thread begins raises
\* DltsConnectionAcquisitionError, and nothing but the scan thread reads from
\* or writes to the transport; the scan thread has given the connection back
\* before _scanFinished is set.
C24_ExclusiveSession ==
    /\ [](InSession => /\ comLockOwner = ScanThread /\ acquired /\ comLockCount >= 1
                       /\ \A t \in Callers : pc[t] \notin {"body", "end"})
    /\ [](scanFinished => comLockOwner # ScanThread)
    /\ [][InSession =>
            /\ \A t \in Callers : (pc[t] = "idle" /\ pc'[t] \notin {"idle", "start_go",
                                       "start_noop", "abort_set", "abort_noop"})
                   => /\ pc'[t] = "raised"
                      /\ out'[t].kind = "DltsConnectionAcquisitionError"
                      /\ rx' = rx /\ tx' = tx
            /\ InSession' => comLockOwner' = ScanThread]_vars

\* while the scan thread waits for a data point, a protocol call of the
\* other thread has been refused
C24_Witness ==
    /\ InSession
    /\ spc = "receive"
    /\ tx # <<>>
    /\ pc[Other] = "raised"
    /\ out[Other].kind = "DltsConnectionAcquisitionError"

(***************************************************************************)
(* ComboScan: start() and abort() called by one thread, the thread of the  *)
(* combo scan (_run) and the threads of the scans it combines.  A combined *)
(* scan is followed through _scanThreadTarget as far as the combo scan can *)
(* see it: its setup, its acquisition loop and its end.                    *)
(***************************************************************************)
SubScanIndexes == 1 .. Len(ComboScans)

\* Scan.isRunning, isFinished and isAborted of a combined scan
subIsRunning(n) == subScans[n].thread = "alive"
subIsFinished(n) == subScans[n].scanFinished /\ ~subIsRunning(n)
subIsAborted(n) == subIsFinished(n) /\ subScans[n].abortRequested

\* ComboScan.isRunning: self._thread.isAlive()
comboIsRunning == comboScan.thread = "alive"

\* "any(map(lambda scan: scan.isAborted(), self.Scans)) and not self.isRunning()"
comboIsAborted == (\E n \in SubScanIndexes : subIsAborted(n)) /\ ~comboIsRunning

\* "all(map(lambda scan: scan.isFinished(), self.Scans)) and not self.isRunning()"
comboIsFinished == (\A n \in SubScanIndexes : subIsFinished(n)) /\ ~comboIsRunning

\* ComboScan.start(dltsConnection)
ComboStart ==
    /\ comboScan' =
         IF ~comboScan.isAlive THEN [comboScan EXCEPT !.raised = "AttributeError"]
         ELSE IF ~(~comboIsRunning /\ ~comboIsFinished) THEN [comboScan EXCEPT !.raised = "none"]
         ELSE IF comboScan.thread = "initial"
         THEN [comboScan EXCEPT !.thread = "alive", !.raised = "none"]
         ELSE [comboScan EXCEPT !.raised = "RuntimeError"]
    /\ UNCHANGED <<connVars, scanVars, dltsVars, callVars, subScans>>

\* ComboScan.abort()
ComboAbort ==
    /\ comboScan' =
         IF ~comboScan.isAlive THEN [comboScan EXCEPT !.raised = "AttributeError"]
         ELSE IF comboIsRunning /\ ~comboScan.abortRequested
         THEN [comboScan EXCEPT !.abortRequested = TRUE, !.raised = "none"]
         ELSE [comboScan EXCEPT !.raised = "none"]
    /\ UNCHANGED <<connVars, scanVars, dltsVars, callVars, subScans>>

\* _run, "for scan in self.Scans": the next scan, or the end of the thread
ComboFor ==
    /\ comboIsRunning /\ comboScan.pc = "for"
    /\ comboScan' = IF comboScan.i > Len(ComboScans)
                    THEN [comboScan EXCEPT !.thread = "stopped", !.pc = "done"]
                    ELSE [comboScan EXCEPT !.pc = "test"]
    /\ UNCHANGED <<connVars, scanVars, dltsVars, callVars, subScans>>

\* "if not self.isAborted()"
ComboTest ==
    /\ comboIsRunning /\ comboScan.pc = "test"
    /\ comboScan' = IF ~comboIsAborted
                    THEN [comboScan EXCEPT !.pc = "start"]
                    ELSE [comboScan EXCEPT !.i = @ + 1, !.pc = "for"]
    /\ UNCHANGED <<connVars, scanVars, dltsVars, callVars, subScans>>

\* "scan.start(self._dltsConnection)": Scan.start
ComboStartScan ==
    /\ comboIsRunning /\ comboScan.pc = "start"
    /\ \E n \in {comboScan.i} :
        IF ~StartGuard(subIsRunning(n), subIsFinished(n))
        THEN /\ comboScan' = [comboScan EXCEPT !.pc = "while"]
             /\ UNCHANGED subScans
        ELSE IF subScans[n].thread = "initial"
        THEN /\ comboScan' = [comboScan EXCEPT !.pc = "while"]
             /\ subScans' = [subScans EXCEPT ![n].thread = "alive"]
        \* Thread.start() raises RuntimeError: "except Exception" ends _run
        ELSE /\ comboScan' = [comboScan EXCEPT !.thread = "stopped", !.pc = "done"]
             /\ UNCHANGED subScans
    /\ UNCHANGED <<connVars, scanVars, dltsVars, callVars>>

\* "while not scan.isFinished()"
ComboWhile ==
    /\ comboIsRunning /\ comboScan.pc = "while"
    /\ comboScan' = IF ~subIsFinished(comboScan.i)
                    THEN [comboScan EXCEPT !.pc = "abort"]
                    ELSE [comboScan EXCEPT !.i = @ + 1, !.pc = "for"]
    /\ UNCHANGED <<connVars, scanVars, dltsVars, callVars, subScans>>

\* "if self._abortRequested: scan.abort()" (Scan.abort), then the sleep
ComboAbortScan ==
    /\ comboIsRunning /\ comboScan.pc = "abort"
    /\ comboScan' = [comboScan EXCEPT !.pc = "while"]
    /\ \E n \in {comboScan.i} :
        subScans' = IF comboScan.abortRequested
                       /\ AbortGuard(subIsRunning(n), subScans[n].scanningForDataPoints)
                    THEN [subScans EXCEPT ![n].abortRequested = TRUE]
                    ELSE subScans
    /\ UNCHANGED <<connVars, scanVars, dltsVars, callVars>>

ComboStep ==
    \/ ComboFor
    \/ ComboTest
    \/ ComboStartScan
    \/ ComboWhile
    \/ ComboAbortScan

\* _scanThreadTarget of a combined scan up to the acquisition loop:
\* "self._scanningForDataPoints = True", unless the setup raises
SubScanSetup(n) ==
    /\ subIsRunning(n) /\ subScans[n].pc = "setup"
    /\ \E ok \in BOOLEAN :
        subScans' = IF ok
                    THEN [subScans EXCEPT ![n].scanningForDataPoints = TRUE, ![n].pc = "loop"]
                    ELSE [subScans EXCEPT ![n].pc = "finally"]
    /\ UNCHANGED <<connVars, scanVars, dltsVars, callVars, comboScan>>

\* the pass of the acquisition loop that ends it: the abort request or the
\* last data point has been seen, or the pass raises
SubScanLoopEnd(n) ==
    /\ subIsRunning(n) /\ subScans[n].pc = "loop"
    /\ \E end \in {"stop", "raised"} :
        subScans' = IF end = "stop"
                    THEN [subScans EXCEPT ![n].scanningForDataPoints = FALSE, ![n].pc = "finally"]
                    ELSE [subScans EXCEPT ![n].pc = "finally"]
    /\ UNCHANGED <<connVars, scanVars, dltsVars, callVars, comboScan>>

\* the finally block and "self._scanFinished = True"
SubScanFinish(n) ==
    /\ subIsRunning(n) /\ subScans[n].pc = "finally"
    /\ subScans' = [subScans EXCEPT ![n].scanningForDataPoints = FALSE,
                                    ![n].scanFinished = TRUE, ![n].pc = "return"]
    /\ UNCHANGED <<connVars, scanVars, dltsVars, callVars, comboScan>>

\* the thread target returns
SubScanReturn(n) ==
    /\ subIsRunning(n) /\ subScans[n].pc = "return"
    /\ subScans' = [subScans EXCEPT ![n].thread = "stopped", ![n].pc = "done"]
    /\ UNCHANGED <<connVars, scanVars, dltsVars, callVars, comboScan>>

\* the connection, the scan and the facade idle; a ComboScan of either Python
InitComboScan ==
    /\ comLockOwner = NoThread
    /\ comLockCount = 0
    /\ acquired = FALSE
    /\ rx = <<>>
    /\ tx = <<>>
    /\ pc = [t \in Callers |-> "idle"]
    /\ call = [t \in Callers |-> NoCall]
    /\ out = [t \in Callers |-> NoReturn]
    /\ byMe = [t \in Callers |-> FALSE]
    /\ holds = [t \in Callers |-> 0]
    /\ InitScan(PointConfig, None)
    /\ InitDlts(1)
    /\ InitCall
    /\ \E isAlive \in BOOLEAN : InitCombo(isAlive)

NextCombo ==
    \/ ComboStart
    \/ ComboAbort
    \/ ComboStep
    \/ \E n \in SubScanIndexes : SubScanSetup(n)
    \/ \E n \in SubScanIndexes : SubScanLoopEnd(n)
    \/ \E n \in SubScanIndexes : SubScanFinish(n)
    \/ \E n \in SubScanIndexes : SubScanReturn(n)

SpecCombo == InitComboScan /\ [][NextCombo]_vars

\* C21: a ComboScan starts its scans one after another, each after the one
\* before it has finished, and once abort() has set its abort request no scan
\* that had not been started is started.
C21_NoStartAfterAbort ==
    [][\A n \in SubScanIndexes :
        (subScans[n].thread = "initial" /\ subScans'[n].thread # "initial")
        => /\ \A m \in 1 .. n - 1 : subIsFinished(m)
           /\ ~comboScan.abortRequested]_vars

====
